---------------------------- MODULE Spec2Model ----------------------------
(***************************************************************************)
(* A model of the incremental stroke tessellator PathBufferData            *)
(* (src/unnamed/part_001, the current revision of                          *)
(* src/src/path/pathBufferData.ts), and of the PathMesh that owns one and  *)
(* uploads its buffers to the GPU (src/unnamed/part_002, with the engine   *)
(* extension of src/unnamed/part_003), and of the InkCanvas that creates   *)
(* one PathMesh per stroke and undoes, redoes and clears them              *)
(* (src/unnamed/part_005).                                                 *)
(*                                                                         *)
(* Numbers.  The source computes in IEEE doubles.  The model computes in   *)
(* fixed point: a coordinate or a length is an integer count of 1/Q        *)
(* units, a unit vector component, a cosine or a dot product of unit       *)
(* vectors is an integer count of 1/U.  Q and U are powers of two and      *)
(* every coordinate of the model is below 2^24/Q, so the Float32Array      *)
(* stores of the source are exact on the model's values, as are the        *)
(* Uint32Array stores of the (non-negative) vertex indices.                *)
(*                                                                         *)
(* An object of the source is a record with the source's field names (the  *)
(* leading underscore dropped); a method is an operator from the object    *)
(* (and the arguments) to the object after the call.  Fields whose name    *)
(* starts with h_ are history: they record what a call did and are never   *)
(* read by the operators that model the code.                              *)
(*                                                                         *)
(* Comparisons.  Where the source compares two doubles that are equal in   *)
(* exact arithmetic (the turn of an exact reversal off the axes, the       *)
(* direction after a segment of length zero), rounding noise of 1e-16      *)
(* decides the double comparison.  The model decides such a comparison by  *)
(* its own rounding, at 1/U.  Everywhere else the sample pool keeps the    *)
(* compared values apart by more than the resolution.                      *)
(***************************************************************************)
EXTENDS Integers, Sequences, FiniteSets, TLC

VARIABLES
    pbd,        \* the PathBufferData instance
    pre,        \* history: the instance as it was when the last call began
    samples,    \* history: every raw sample handed to addPointToPath so far
    outcome,    \* history: the branch the last addPointToPath call took
    mesh,       \* the PathMesh that owns the instance, where there is one
    canvas      \* the InkCanvas and the paths it has created, where there is one

vars == <<pbd, pre, samples, outcome, mesh, canvas>>

---------------------------------------------------------------------------
(* Resolution of the fixed-point numbers. *)

\* Coordinates and lengths count 1/Q units.
Q == 2^8

\* Unit vectors, cosines, sines and their dot products count 1/U.
U == 2^14

---------------------------------------------------------------------------
(* Bounds of the model. *)

\* The number of addPointToPath calls of one run.
MaxCalls == 4

\* PathBufferData._VerticesStartSize.  The source allocates 10000 vertices;
\* the model starts smaller, so that the growth of the buffers happens
\* within MaxCalls calls.  Every preset of OptionPresets fits its start cap
\* and its first segment in this size, as 10000 does for them.
VerticesStartSize == 76

\* PathBufferData._VerticesExpansionRate
VerticesExpansionRate == 2

\* Number.MAX_VALUE, the "unset" start of a change region: above any offset.
NumberMaxValue == 2^30

---------------------------------------------------------------------------
(* Arithmetic. *)

Abs(a) == IF a < 0 THEN -a ELSE a

Max(a, b) == IF a >= b THEN a ELSE b

Min(a, b) == IF a <= b THEN a ELSE b

\* a / b rounded to the nearest integer, halves away from zero (b > 0).
RoundDiv(a, b) ==
    IF a >= 0 THEN (2 * a + b) \div (2 * b)
    ELSE -((2 * (-a) + b) \div (2 * b))

\* Math.ceil(a / b) for a >= 0, b > 0.
CeilDiv(a, b) == (a + b - 1) \div b

RECURSIVE SqrtSearch(_, _, _)
\* The largest s in lo..hi with s * s <= n.
SqrtSearch(n, lo, hi) ==
    IF lo >= hi THEN lo
    ELSE LET mid == (lo + hi + 1) \div 2
         IN  IF mid * mid <= n THEN SqrtSearch(n, mid, hi)
             ELSE SqrtSearch(n, lo, mid - 1)

\* Math.sqrt(n), rounded to the nearest integer (n < 2^28).
Sqrt(n) == (SqrtSearch(4 * n, 0, 2^15) + 1) \div 2

---------------------------------------------------------------------------
(* Vector2 *)

Vec(x, y) == [x |-> x, y |-> y]

Zero == Vec(0, 0)

\* Vector2.subtractToRef / subtractInPlace
Subtract(a, b) == Vec(a.x - b.x, a.y - b.y)

\* Vector2.addToRef / addInPlace
Add(a, b) == Vec(a.x + b.x, a.y + b.y)

\* Vector2.length of a vector of coordinates: a length in 1/Q.
Length(v) == Sqrt(v.x * v.x + v.y * v.y)

RECURSIVE Gcd(_, _)
\* The greatest common divisor of a >= 0 and b >= 0.
Gcd(a, b) == IF b = 0 THEN a ELSE Gcd(b, a % b)

RECURSIVE Widen(_)
\* v doubled for as long as its squared length stays below 2^26, so that
\* the rounding of its length is a relative error below 2^-13.
Widen(v) ==
    IF v.x * v.x + v.y * v.y >= 2^26 THEN v
    ELSE Widen(Vec(2 * v.x, 2 * v.y))

\* Vector2.normalize of a vector of coordinates: a unit vector in 1/U.  The
\* zero vector has no direction and is left as it is.  The result depends on
\* the direction of v alone: v is first brought to a fixed length range.
Normalize(v) ==
    IF v.x = 0 /\ v.y = 0 THEN Zero
    ELSE LET g == Gcd(Abs(v.x), Abs(v.y))
             w == Widen(Vec(v.x \div g, v.y \div g))
             len == Length(w)
         IN  Vec(RoundDiv(w.x * U, len), RoundDiv(w.y * U, len))

\* Vector2.Dot of two unit vectors, in 1/U.
Dot(a, b) == RoundDiv(a.x * b.x + a.y * b.y, U)

\* Vector2.scaleToRef(radius): a unit vector scaled to a vector of
\* coordinates, radius given in 1/Q.
ScaleToRef(v, radius) == Vec(RoundDiv(v.x * radius, U), RoundDiv(v.y * radius, U))

---------------------------------------------------------------------------
(* Math.cos and Math.sin at the multiples i * 2*pi/roundness, in 1/U.  The  *)
(* doubles Math.cos(Math.PI/2), Math.cos(3*Math.PI/2) and Math.sin(Math.PI)*)
(* are 6.1e-17, -1.8e-16 and 1.2e-16, not 0; the tables keep their sign as *)
(* one unit, which is what the comparisons of the source see.              *)

CosTable ==
    [r \in {4, 5, 16, 45, 150} |->
        CASE r = 4 -> <<16384, 1, -16384, -1>>
          [] r = 5 -> <<16384, 5063, -13255, -13255, 5063>>
          [] r = 16 -> <<16384, 15137, 11585, 6270, 1, -6270, -11585,
                         -15137, -16384, -15137, -11585, -6270, -1, 6270,
                         11585, 15137>>
          [] r = 45 -> <<16384, 16225, 15749, 14968, 13894, 12551, 10963,
                         9162, 7182, 5063, 2845, 572, -1713, -3964, -6138,
                         -8192, -10087, -11786, -13255, -14466, -15396,
                         -16026, -16344, -16344, -16026, -15396, -14466,
                         -13255, -11786, -10087, -8192, -6138, -3964,
                         -1713, 572, 2845, 5063, 7182, 9162, 10963, 12551,
                         13894, 14968, 15749, 16225>>
          [] r = 150 -> <<16384, 16370, 16327, 16255, 16155, 16026, 15869,
                         15685, 15473, 15233, 14968, 14675, 14357, 14014,
                         13647, 13255, 12840, 12403, 11943, 11463, 10963,
                         10444, 9906, 9351, 8779, 8192, 7591, 6976, 6349,
                         5711, 5063, 4406, 3741, 3070, 2393, 1713, 1029,
                         343, -343, -1029, -1713, -2393, -3070, -3741,
                         -4406, -5063, -5711, -6349, -6976, -7591, -8192,
                         -8779, -9351, -9906, -10444, -10963, -11463,
                         -11943, -12403, -12840, -13255, -13647, -14014,
                         -14357, -14675, -14968, -15233, -15473, -15685,
                         -15869, -16026, -16155, -16255, -16327, -16370,
                         -16384, -16370, -16327, -16255, -16155, -16026,
                         -15869, -15685, -15473, -15233, -14968, -14675,
                         -14357, -14014, -13647, -13255, -12840, -12403,
                         -11943, -11463, -10963, -10444, -9906, -9351,
                         -8779, -8192, -7591, -6976, -6349, -5711, -5063,
                         -4406, -3741, -3070, -2393, -1713, -1029, -343,
                         343, 1029, 1713, 2393, 3070, 3741, 4406, 5063,
                         5711, 6349, 6976, 7591, 8192, 8779, 9351, 9906,
                         10444, 10963, 11463, 11943, 12403, 12840, 13255,
                         13647, 14014, 14357, 14675, 14968, 15233, 15473,
                         15685, 15869, 16026, 16155, 16255, 16327, 16370>>]

SinTable ==
    [r \in {4, 5, 16, 45, 150} |->
        CASE r = 4 -> <<0, 16384, 1, -16384>>
          [] r = 5 -> <<0, 15582, 9630, -9630, -15582>>
          [] r = 16 -> <<0, 6270, 11585, 15137, 16384, 15137, 11585, 6270,
                         1, -6270, -11585, -15137, -16384, -15137, -11585,
                         -6270>>
          [] r = 45 -> <<0, 2280, 4516, 6664, 8682, 10531, 12176, 13583,
                         14726, 15582, 16135, 16374, 16294, 15897, 15191,
                         14189, 12911, 11381, 9630, 7692, 5604, 3406,
                         1143, -1143, -3406, -5604, -7692, -9630, -11381,
                         -12911, -14189, -15191, -15897, -16294, -16374,
                         -16135, -15582, -14726, -13583, -12176, -10531,
                         -8682, -6664, -4516, -2280>>
          [] r = 150 -> <<0, 686, 1371, 2053, 2732, 3406, 4075, 4735, 5388,
                         6031, 6664, 7285, 7893, 8487, 9067, 9630, 10177,
                         10706, 11216, 11706, 12176, 12624, 13050, 13454,
                         13833, 14189, 14520, 14825, 15104, 15356, 15582,
                         15780, 15951, 16094, 16208, 16294, 16352, 16380,
                         16380, 16352, 16294, 16208, 16094, 15951, 15780,
                         15582, 15356, 15104, 14825, 14520, 14189, 13833,
                         13454, 13050, 12624, 12176, 11706, 11216, 10706,
                         10177, 9630, 9067, 8487, 7893, 7285, 6664, 6031,
                         5388, 4735, 4075, 3406, 2732, 2053, 1371, 686, 1,
                         -686, -1371, -2053, -2732, -3406, -4075, -4735,
                         -5388, -6031, -6664, -7285, -7893, -8487, -9067,
                         -9630, -10177, -10706, -11216, -11706, -12176,
                         -12624, -13050, -13454, -13833, -14189, -14520,
                         -14825, -15104, -15356, -15582, -15780, -15951,
                         -16094, -16208, -16294, -16352, -16380, -16380,
                         -16352, -16294, -16208, -16094, -15951, -15780,
                         -15582, -15356, -15104, -14825, -14520, -14189,
                         -13833, -13454, -13050, -12624, -12176, -11706,
                         -11216, -10706, -10177, -9630, -9067, -8487, -7893,
                         -7285, -6664, -6031, -5388, -4735, -4075, -3406,
                         -2732, -2053, -1371, -686>>]

\* Math.cos(alpha) for alpha = i * roundnessSliceAlpha
Cos(t, i) == CosTable[t.roundness][i + 1]

\* Math.sin(alpha) for alpha = i * roundnessSliceAlpha
Sin(t, i) == SinTable[t.roundness][i + 1]

\* The first i for which the double i * (2 * Math.PI / roundness) is at
\* least the double Math.PI.  For 4, 5, 16 and 45 it is the first i with
\* 2i >= roundness.  For 150 the quotient 2 * Math.PI / 150 is rounded down
\* and 75 times it is 3.1415926535897927, one unit in the last place below
\* Math.PI = 3.141592653589793: the first i is 76.
HalfTurnSlice == [r \in {4, 5, 16, 45, 150} |->
                     CASE r = 4 -> 2 [] r = 5 -> 3 [] r = 16 -> 8
                       [] r = 45 -> 23 [] r = 150 -> 76]

\* alpha >= Math.PI for alpha = i * (2 * Math.PI / roundness)
AlphaGeqPi(t, i) == i >= HalfTurnSlice[t.roundness]

---------------------------------------------------------------------------
(* PathBufferData: construction and buffers. *)

\* The values an option is given as.  A number is Number(n); NaN, undefined,
\* null and a string that is no numeral have no n.
Number(n) == [type |-> "number", n |-> n]

NaN == [type |-> "NaN", n |-> 0]

Undefined == [type |-> "undefined", n |-> 0]

Null == [type |-> "null", n |-> 0]

Text == [type |-> "string", n |-> 0]

\* ToNumber, which Math.max applies to its arguments: undefined and a string
\* that is no numeral give NaN, null gives 0.
ToNumber(v) ==
    CASE v.type = "number" -> v
      [] v.type = "NaN" -> NaN
      [] v.type = "undefined" -> NaN
      [] v.type = "null" -> Number(0)
      [] v.type = "string" -> NaN

\* Math.max(a, v) for a number a: NaN when v is no number.
MathMax(a, v) ==
    IF ToNumber(v).type = "NaN" THEN NaN ELSE Number(Max(a, ToNumber(v).n))

\* const DefaultOptions
DefaultOptions ==
    [smoothingDistance |-> Number(20), roundness |-> Number(16),
     radius |-> Number(5), debounce |-> Number(1)]

\* { ...DefaultOptions, ...options }: a field given in options replaces the
\* default, a field left out keeps it.
MergeOptions(options) ==
    [f \in DOMAIN DefaultOptions |->
        IF f \in DOMAIN options THEN options[f] ELSE DefaultOptions[f]]

\* new Float32Array(n) / new Uint32Array(n): n elements, all 0.
NewArray(n) == [i \in 0 .. n - 1 |-> 0]

\* The length of a typed array.
ArrayLength(a) == Cardinality(DOMAIN a)

\* a[i] = v on a typed array: a store outside 0 .. length-1 is dropped.
Store(a, i, v) == IF i \in DOMAIN a THEN [a EXCEPT ![i] = v] ELSE a

\* TypedArray.set(old): the elements of old copied to the same offsets.
SetFrom(a, old) == [i \in DOMAIN a |-> IF i \in DOMAIN old THEN old[i] ELSE a[i]]

\* PathBufferData._createBuffers
CreateBuffers(t, size) ==
    [t EXCEPT !.positions = NewArray(size * 3),
              !.distances = NewArray(size * 1),
              !.indices = NewArray(size * 3 * 2)]

\* The changes as addPointToPath resets them: nothing written yet.
UnsetChanges ==
    [indexStart |-> NumberMaxValue, indexEnd |-> 0,
     vertexPositionStart |-> NumberMaxValue, vertexPositionEnd |-> 0,
     vertexDistanceStart |-> NumberMaxValue, vertexDistanceEnd |-> 0]

\* _smoothingDistance, _debounce, _roundness and _radius as the constructor
\* computes them from the options given.
EffectiveOptions(options) ==
    [smoothingDistance |-> MathMax(5, MergeOptions(options).smoothingDistance),
     debounce |-> MathMax(1, MergeOptions(options).debounce),
     roundness |-> MathMax(4, MergeOptions(options).roundness),
     radius |-> MathMax(1, MergeOptions(options).radius)]

\* PathBufferData.constructor, for options whose effective values are
\* numbers: the fields hold the numbers themselves.  radius and
\* smoothingDistance are kept in 1/Q; maxAddedVerticesPerPointX2 is twice
\* _maxAddedVerticesPerPoint, which is not an integer for an odd roundness.
Constructor(options) ==
    LET o == MergeOptions(options)
        e == EffectiveOptions(options)
    IN  CreateBuffers(
            [options |-> o,
             smoothingDistance |-> e.smoothingDistance.n * Q,
             debounce |-> e.debounce.n,
             roundness |-> e.roundness.n,
             radius |-> e.radius.n * Q,
             maxAddedVerticesPerPointX2 |-> (e.roundness.n + 2 * (1 + 4)) + 2 * 20,
             nextVertexIndex |-> 0,
             nextTriangleIndex |-> 0,
             previousPoint |-> Zero,
             currentPoint |-> Zero,
             maxVerticesCount |-> VerticesStartSize,
             positions |-> <<>>,
             distances |-> <<>>,
             indices |-> <<>>,
             indicesCount |-> 0,
             currentChanges |->
                 [indexStart |-> 0, indexEnd |-> 0,
                  vertexPositionStart |-> 0, vertexPositionEnd |-> 0,
                  vertexDistanceStart |-> 0, vertexDistanceEnd |-> 0],
             points |-> <<>>,
             previous_translation |-> Zero,
             previous_thicknessDirection |-> Zero,
             previous_thicknessDirectionScaled |-> Zero,
             previous_p1 |-> Zero,
             previous_p2 |-> Zero,
             previous_p3 |-> Zero,
             previous_p4 |-> Zero,
             previous_p2Index |-> 0,
             previous_p3Index |-> 0,
             previous_length |-> 0,
             translation |-> Zero,
             thicknessDirection |-> Zero,
             thicknessDirectionScaled |-> Zero,
             p1 |-> Zero,
             p2 |-> Zero,
             p3 |-> Zero,
             p4 |-> Zero,
             currentDebounce |-> 0,
             h_log |-> <<>>,
             h_path |-> <<>>,
             h_written |-> 0,
             h_grown |-> <<>>,
             h_steps |-> <<>>],
            VerticesStartSize)

\* PathBufferData.totalLength
TotalLength(t) == t.previous_length

\* PathBufferData._updateVertexData
UpdateVertexData(t, vertexIndex, x, y, z, dist) ==
    LET vertexIndexInPositionBuffer == vertexIndex * 3
        vertexIndexInDistanceBuffer == vertexIndex * 1
        c == t.currentChanges
    IN  [t EXCEPT
            !.positions =
                Store(Store(Store(@, vertexIndexInPositionBuffer + 0, x),
                            vertexIndexInPositionBuffer + 1, y),
                      vertexIndexInPositionBuffer + 2, z),
            !.distances = Store(@, vertexIndexInDistanceBuffer + 0, dist),
            !.currentChanges =
                [c EXCEPT
                    !.vertexPositionStart = Min(@, vertexIndexInPositionBuffer),
                    !.vertexPositionEnd = Max(@, vertexIndexInPositionBuffer),
                    !.vertexDistanceStart = Min(@, vertexIndexInDistanceBuffer),
                    !.vertexDistanceEnd = Max(@, vertexIndexInDistanceBuffer)],
            !.h_log = Append(@, [k |-> "vertex", i |-> vertexIndex,
                                 x |-> x, y |-> y, dist |-> dist]),
            !.h_written = Max(@, vertexIndex + 1)]

\* PathBufferData._pushVertexData.  The index it returns is the
\* nextVertexIndex of the object it is applied to.
PushVertexData(t, x, y, z, dist) ==
    [UpdateVertexData(t, t.nextVertexIndex, x, y, z, dist)
        EXCEPT !.nextVertexIndex = @ + 1]

\* PathBufferData._updateTriangleData
UpdateTriangleData(t, triangleIndex, indexA, indexB, indexC) ==
    LET triangleIndexInIndicesBuffer == triangleIndex * 3
        c == t.currentChanges
    IN  [t EXCEPT
            !.indices =
                Store(Store(Store(@, triangleIndexInIndicesBuffer + 0, indexA),
                            triangleIndexInIndicesBuffer + 1, indexB),
                      triangleIndexInIndicesBuffer + 2, indexC),
            !.currentChanges =
                [c EXCEPT
                    !.indexStart = Min(@, triangleIndexInIndicesBuffer),
                    !.indexEnd = Max(@, triangleIndexInIndicesBuffer)],
            !.h_log = Append(@, [k |-> "triangle", i |-> triangleIndex,
                                 a |-> indexA, b |-> indexB, c |-> indexC])]

\* PathBufferData._pushTriangleData
PushTriangleData(t, indexA, indexB, indexC) ==
    [UpdateTriangleData(t, t.nextTriangleIndex, indexA, indexB, indexC)
        EXCEPT !.nextTriangleIndex = @ + 1,
               !.indicesCount = (t.nextTriangleIndex + 1) * 3]

\* PathBufferData._shouldExpand.  Both sides of the comparison are doubled.
ShouldExpand(t, newPointsCount) ==
    LET shouldStopAtX2 ==
            2 * t.maxVerticesCount - (t.maxAddedVerticesPerPointX2 * newPointsCount)
    IN  2 * t.nextVertexIndex > shouldStopAtX2

\* History: the three buffers of t, as a growth finds or leaves them.
Held(t) == [positions |-> t.positions, distances |-> t.distances, indices |-> t.indices]

\* _expandBuffers without the copy of the old buffers into the new ones: the
\* variant PermanentBelowCursors is tried against.
ExpandBuffersWithoutCopy(t) ==
    LET size == t.maxVerticesCount * VerticesExpansionRate
        fresh == CreateBuffers([t EXCEPT !.maxVerticesCount = size], size)
    IN  [fresh EXCEPT
            !.h_log = Append(@, [k |-> "expand", i |-> size]),
            !.h_grown = Append(@, [old |-> Held(t), new |-> Held(fresh)])]

\* _expandBuffers leaving indices as it was, the vertex buffers alone
\* grown: the variant BufferGrowth is tried against.
ExpandBuffersOfVerticesAlone(t) ==
    LET size == t.maxVerticesCount * VerticesExpansionRate
        fresh == CreateBuffers([t EXCEPT !.maxVerticesCount = size], size)
        grown == [fresh EXCEPT
                     !.positions = SetFrom(@, t.positions),
                     !.distances = SetFrom(@, t.distances),
                     !.indices = t.indices]
    IN  [grown EXCEPT
            !.h_log = Append(@, [k |-> "expand", i |-> size]),
            !.h_grown = Append(@, [old |-> Held(t), new |-> Held(grown)])]

\* _expandBuffers without the copy of the old indices into the new ones:
\* the variant PersistentPrefix is tried against.
ExpandBuffersLosingIndices(t) ==
    LET size == t.maxVerticesCount * VerticesExpansionRate
        fresh == CreateBuffers([t EXCEPT !.maxVerticesCount = size], size)
        grown == [fresh EXCEPT
                     !.positions = SetFrom(@, t.positions),
                     !.distances = SetFrom(@, t.distances)]
    IN  [grown EXCEPT
            !.h_log = Append(@, [k |-> "expand", i |-> size]),
            !.h_grown = Append(@, [old |-> Held(t), new |-> Held(grown)])]

\* PathBufferData._expandBuffers
ExpandBuffers(t) ==
    LET size == t.maxVerticesCount * VerticesExpansionRate
        fresh == CreateBuffers([t EXCEPT !.maxVerticesCount = size], size)
        grown == [fresh EXCEPT
                     !.positions = SetFrom(@, t.positions),
                     !.distances = SetFrom(@, t.distances),
                     !.indices = SetFrom(@, t.indices)]
    IN  [grown EXCEPT
            !.h_log = Append(@, [k |-> "expand", i |-> size]),
            !.h_grown = Append(@, [old |-> Held(t), new |-> Held(grown)])]

\* PathBufferData._quadraticBezierEquation at t = step / steps.
QuadraticBezierEquation(step, steps, val0, val1, val2) ==
    RoundDiv((steps - step) * (steps - step) * val0
                 + 2 * step * (steps - step) * val1
                 + step * step * val2,
             steps * steps)

---------------------------------------------------------------------------
(* PathBufferData: geometry. *)

\* One iteration of the loop of _startPath, for i < roundness: a contour
\* vertex and the triangle that joins it to the center and to the next
\* contour vertex (the last one wraps to the first contour vertex).  For
\* i >= roundness the loop is over and t is left as it is.
StartPathSlice(t, i, centerIndex) ==
    IF ~(i < t.roundness) THEN t
    ELSE LET xSlice == t.currentPoint.x + RoundDiv(Cos(t, i) * t.radius, U)
             ySlice == t.currentPoint.y + RoundDiv(Sin(t, i) * t.radius, U)
             contourIndex == t.nextVertexIndex
             u == PushVertexData(t, xSlice, ySlice, 0, 0)
         IN  IF i = t.roundness - 1
             THEN PushTriangleData(u, centerIndex, centerIndex + 1, contourIndex)
             ELSE PushTriangleData(u, centerIndex, contourIndex + 1, contourIndex)

RECURSIVE StartPathContour(_, _, _)
\* The loop of _startPath from its iteration i on, four iterations at a
\* time.
StartPathContour(t, i, centerIndex) ==
    IF ~(i < t.roundness) THEN t
    ELSE StartPathContour(
             StartPathSlice(
                 StartPathSlice(
                     StartPathSlice(StartPathSlice(t, i, centerIndex),
                                    i + 1, centerIndex),
                     i + 2, centerIndex),
                 i + 3, centerIndex),
             i + 4, centerIndex)

\* _startPath with the contour loop begun at 1: the variant StartCapShape is
\* tried against.
StartPathFromSecondSlice(t) ==
    [StartPathContour(
         PushVertexData(t, t.currentPoint.x, t.currentPoint.y, 0, 0),
         1, t.nextVertexIndex)
        EXCEPT !.nextTriangleIndex = 0, !.nextVertexIndex = 1]

\* PathBufferData._startPath
StartPath(t) ==
    [StartPathContour(
         PushVertexData(t, t.currentPoint.x, t.currentPoint.y, 0, 0),
         0, t.nextVertexIndex)
        EXCEPT !.nextTriangleIndex = 0, !.nextVertexIndex = 1]

\* The head of _firstSegment and of _addSegment: the direction of travel, the
\* thickness offset and the four corners of the quad of the segment from
\* previousPoint to currentPoint.
SegmentFrame(t) ==
    LET diff == Subtract(t.currentPoint, t.previousPoint)
        translation == Normalize(diff)
        thicknessDirection == Vec(-translation.y, translation.x)
        thicknessDirectionScaled == ScaleToRef(thicknessDirection, t.radius)
    IN  [t EXCEPT
            !.translation = translation,
            !.thicknessDirection = thicknessDirection,
            !.thicknessDirectionScaled = thicknessDirectionScaled,
            !.p1 = Subtract(t.previousPoint, thicknessDirectionScaled),
            !.p2 = Subtract(t.currentPoint, thicknessDirectionScaled),
            !.p3 = Add(t.currentPoint, thicknessDirectionScaled),
            !.p4 = Add(t.previousPoint, thicknessDirectionScaled)]

\* The quad with its four corners at the length after the segment: the
\* variant DistanceAttribute is tried against.
SegmentQuadAtOneLength(t, totalDistance) ==
    LET p1Index == t.nextVertexIndex
        p2Index == p1Index + 1
        p3Index == p1Index + 2
        p4Index == p1Index + 3
        a == PushVertexData(t, t.p1.x, t.p1.y, 0, totalDistance)
        b == PushVertexData(a, t.p2.x, t.p2.y, 0, totalDistance)
        c == PushVertexData(b, t.p3.x, t.p3.y, 0, totalDistance)
        d == PushVertexData(c, t.p4.x, t.p4.y, 0, totalDistance)
    IN  PushTriangleData(PushTriangleData(d, p1Index, p3Index, p2Index),
                         p3Index, p1Index, p4Index)

\* The quad of _firstSegment and of _addSegment: p1 and p4 at the length
\* before the segment, p2 and p3 at the length after it, and two triangles.
\* p1Index is the nextVertexIndex of t; p2, p3 and p4 follow it.
SegmentQuad(t, totalDistance) ==
    LET p1Index == t.nextVertexIndex
        p2Index == p1Index + 1
        p3Index == p1Index + 2
        p4Index == p1Index + 3
        a == PushVertexData(t, t.p1.x, t.p1.y, 0, t.previous_length)
        b == PushVertexData(a, t.p2.x, t.p2.y, 0, totalDistance)
        c == PushVertexData(b, t.p3.x, t.p3.y, 0, totalDistance)
        d == PushVertexData(c, t.p4.x, t.p4.y, 0, t.previous_length)
    IN  PushTriangleData(PushTriangleData(d, p1Index, p3Index, p2Index),
                         p3Index, p1Index, p4Index)

\* One iteration of the "Add Start Cap" loop of _firstSegment, on the state
\* s of the loop: the object, nextSegmentTriangleIndex, which the closing
\* step sets, and whether the loop has been left.
StartCapSlice(s, i, p1Index) ==
    IF s.done THEN s
    ELSE IF ~(i < s.t.roundness) THEN [s EXCEPT !.done = TRUE]
    ELSE IF AlphaGeqPi(s.t, i)
    THEN [t |-> PushTriangleData(s.t, 0, p1Index, s.t.nextVertexIndex - 1),
          nextSegmentTriangleIndex |-> s.t.nextTriangleIndex + 1,
          done |-> TRUE]
    ELSE LET t == s.t
             tds == t.thicknessDirectionScaled
             xSlice == t.previousPoint.x
                         + RoundDiv(tds.x * Cos(t, i) - tds.y * Sin(t, i), U)
             ySlice == t.previousPoint.y
                         + RoundDiv(tds.x * Sin(t, i) + tds.y * Cos(t, i), U)
             contourIndex == t.nextVertexIndex
             u == PushVertexData(t, xSlice, ySlice, 0, t.previous_length)
         IN  [s EXCEPT !.t = PushTriangleData(u, 0, contourIndex, contourIndex - 1)]

RECURSIVE StartCapLoop(_, _, _)
\* The loop from its iteration i on, four iterations at a time, until it
\* is left.
StartCapLoop(s, i, p1Index) ==
    IF s.done THEN s
    ELSE StartCapLoop(
             StartCapSlice(
                 StartCapSlice(
                     StartCapSlice(StartCapSlice(s, i, p1Index),
                                 i + 1, p1Index),
                     i + 2, p1Index),
                 i + 3, p1Index),
             i + 4, p1Index)

\* The "Add Start Cap" loop of _firstSegment from its iteration i on.  The
\* result holds the object and nextSegmentTriangleIndex, which the closing
\* step of the loop sets.
StartCap(t, i, p1Index, nextSegmentTriangleIndex) ==
    StartCapLoop([t |-> t,
                  nextSegmentTriangleIndex |-> nextSegmentTriangleIndex,
                  done |-> FALSE], i, p1Index)

\* One iteration of the "Add End Cap" loop of _firstSegment and of
\* _addSegment (the same code), on the state s of the loop: the object and
\* whether the loop has been left.
EndCapSlice(s, i, centerIndex, p2Index, p3Index, totalDistance) ==
    IF s.done THEN s
    ELSE IF ~(i < s.t.roundness) THEN [s EXCEPT !.done = TRUE]
    ELSE IF AlphaGeqPi(s.t, i)
    THEN [t |-> PushTriangleData(s.t, centerIndex, p3Index, s.t.nextVertexIndex - 1),
          done |-> TRUE]
    ELSE LET t == s.t
             tds == t.thicknessDirectionScaled
             xSlice == t.currentPoint.x
                         + RoundDiv(-tds.x * Cos(t, i) + tds.y * Sin(t, i), U)
             ySlice == t.currentPoint.y
                         + RoundDiv(-tds.x * Sin(t, i) - tds.y * Cos(t, i), U)
             contourIndex == t.nextVertexIndex
             u == PushVertexData(t, xSlice, ySlice, 0, totalDistance)
         IN  [s EXCEPT !.t =
                 IF i = 1
                 THEN PushTriangleData(u, centerIndex, contourIndex, p2Index)
                 ELSE PushTriangleData(u, centerIndex, contourIndex, contourIndex - 1)]

RECURSIVE EndCapLoop(_, _, _, _, _, _)
\* The loop from its iteration i on, four iterations at a time, until it
\* is left.
EndCapLoop(s, i, centerIndex, p2Index, p3Index, totalDistance) ==
    IF s.done THEN s
    ELSE EndCapLoop(
             EndCapSlice(
                 EndCapSlice(
                     EndCapSlice(EndCapSlice(s, i, centerIndex, p2Index, p3Index, totalDistance),
                                 i + 1, centerIndex, p2Index, p3Index, totalDistance),
                     i + 2, centerIndex, p2Index, p3Index, totalDistance),
                 i + 3, centerIndex, p2Index, p3Index, totalDistance),
             i + 4, centerIndex, p2Index, p3Index, totalDistance)

\* The "Add End Cap" loop of _firstSegment and of _addSegment (the same
\* code) from its iteration i on.
EndCap(t, i, centerIndex, p2Index, p3Index, totalDistance) ==
    EndCapLoop([t |-> t, done |-> FALSE], i, centerIndex, p2Index, p3Index,
               totalDistance).t

\* totalDistance without the length before the segment: the variant
\* ArcLength is tried against.
TotalDistanceOfSegmentAlone(t) ==
    LET currentSegmentDistance == Length(Subtract(t.currentPoint, t.previousPoint))
    IN  currentSegmentDistance

\* totalDistance of _firstSegment and of _addSegment: the length of the path
\* once the segment from previousPoint to currentPoint is added.
TotalDistance(t) ==
    LET currentSegmentDistance == Length(Subtract(t.currentPoint, t.previousPoint))
    IN  t.previous_length + currentSegmentDistance

\* The tail of _firstSegment and of _addSegment with the triangle cursor
\* left after the end cap: the variant SingleLiveEndCap is tried against.
SegmentEndKeepingCap(t, nextSegmentTriangleIndex, centerIndex, totalDistance, p2Index, p3Index) ==
    [t EXCEPT
        !.nextVertexIndex = centerIndex + 1,
        !.previous_length = totalDistance,
        !.previous_translation = t.translation,
        !.previous_thicknessDirection = t.thicknessDirection,
        !.previous_thicknessDirectionScaled = t.thicknessDirectionScaled,
        !.previous_p1 = t.p1,
        !.previous_p2 = t.p2,
        !.previous_p3 = t.p3,
        !.previous_p4 = t.p4,
        !.previous_p2Index = p2Index,
        !.previous_p3Index = p3Index]

\* The tail of _firstSegment and of _addSegment: the cursors go back to just
\* before the end cap, the length and the joint memory are recorded.
SegmentEnd(t, nextSegmentTriangleIndex, centerIndex, totalDistance, p2Index, p3Index) ==
    [t EXCEPT
        !.nextTriangleIndex = nextSegmentTriangleIndex,
        !.nextVertexIndex = centerIndex + 1,
        !.previous_length = totalDistance,
        !.previous_translation = t.translation,
        !.previous_thicknessDirection = t.thicknessDirection,
        !.previous_thicknessDirectionScaled = t.thicknessDirectionScaled,
        !.previous_p1 = t.p1,
        !.previous_p2 = t.p2,
        !.previous_p3 = t.p3,
        !.previous_p4 = t.p4,
        !.previous_p2Index = p2Index,
        !.previous_p3Index = p3Index]

\* History: the end cap of a segment begins, its center the next vertex.
CapBegun(t, p2Index, p3Index) ==
    [t EXCEPT !.h_log = Append(@, [k |-> "endCap", i |-> t.nextVertexIndex,
                                   p2Index |-> p2Index, p3Index |-> p3Index])]

\* The end of _firstSegment and of _addSegment (the same code), on the
\* object t the start cap or the joint left: the center of the end cap at
\* centerIndex, the nextVertexIndex of t, then the end cap and the tail.
SegmentCap(t, nextSegmentTriangleIndex, p2Index, p3Index, totalDistance) ==
    SegmentEnd(
        EndCap(PushVertexData(CapBegun(t, p2Index, p3Index),
                              t.currentPoint.x, t.currentPoint.y, 0, totalDistance),
               1, t.nextVertexIndex, p2Index, p3Index, totalDistance),
        nextSegmentTriangleIndex, t.nextVertexIndex, totalDistance, p2Index, p3Index)

\* _firstSegment from the center of its end cap on: s is what the start cap
\* left, the object and the triangles the next segment starts at.
FirstSegmentCaps(s, p2Index, p3Index, totalDistance) ==
    SegmentCap(s.t, s.nextSegmentTriangleIndex, p2Index, p3Index, totalDistance)

\* History: the start half-cap of the first segment begins, around vertex 0.
StartCapBegun(q, p1Index) ==
    [q EXCEPT !.h_log = Append(@, [k |-> "startCap", i |-> 0, p1Index |-> p1Index])]

\* PathBufferData._firstSegment.  p1Index is the nextVertexIndex of t; p2
\* and p3 follow it.
FirstSegment(t) ==
    FirstSegmentCaps(
        StartCap(StartCapBegun(SegmentQuad(SegmentFrame(t), TotalDistance(t)),
                               t.nextVertexIndex),
                 1, t.nextVertexIndex, t.nextTriangleIndex + 2),
        t.nextVertexIndex + 1, t.nextVertexIndex + 2, TotalDistance(t))

\* One iteration of the "Add Mid Cap" loop of the aligned, backward case of
\* _addSegment, on the state s of the loop.  Math.cos(alpha + Math.PI) is
\* -Math.cos(alpha), and so for the sine.
ReversalJointSlice(s, i, previousCenterIndex, p1Index, p4Index) ==
    IF s.done THEN s
    ELSE IF ~(i < s.t.roundness) THEN [s EXCEPT !.done = TRUE]
    ELSE IF AlphaGeqPi(s.t, i)
    THEN [t |-> PushTriangleData(s.t, previousCenterIndex, p1Index,
                                 s.t.nextVertexIndex - 1),
          done |-> TRUE]
    ELSE LET t == s.t
             tds == t.thicknessDirectionScaled
             xSlice == t.previousPoint.x
                         + RoundDiv(-tds.x * (-Cos(t, i)) + tds.y * (-Sin(t, i)), U)
             ySlice == t.previousPoint.y
                         + RoundDiv(-tds.x * (-Sin(t, i)) - tds.y * (-Cos(t, i)), U)
             contourIndex == t.nextVertexIndex
             u == PushVertexData(t, xSlice, ySlice, 0, t.previous_length)
         IN  [s EXCEPT !.t =
                 IF i = 1
                 THEN PushTriangleData(u, previousCenterIndex, contourIndex, p4Index)
                 ELSE PushTriangleData(u, previousCenterIndex, contourIndex,
                                       contourIndex - 1)]

RECURSIVE ReversalJointLoop(_, _, _, _, _)
\* The loop from its iteration i on, four iterations at a time, until it
\* is left.
ReversalJointLoop(s, i, previousCenterIndex, p1Index, p4Index) ==
    IF s.done THEN s
    ELSE ReversalJointLoop(
             ReversalJointSlice(
                 ReversalJointSlice(
                     ReversalJointSlice(ReversalJointSlice(s, i, previousCenterIndex, p1Index, p4Index),
                                 i + 1, previousCenterIndex, p1Index, p4Index),
                     i + 2, previousCenterIndex, p1Index, p4Index),
                 i + 3, previousCenterIndex, p1Index, p4Index),
             i + 4, previousCenterIndex, p1Index, p4Index)

\* The "Add Mid Cap" loop of the aligned, backward case of _addSegment from
\* its iteration i on: a half circle around the previous center, from p4 to
\* p1.
ReversalJoint(t, i, previousCenterIndex, p1Index, p4Index) ==
    ReversalJointLoop([t |-> t, done |-> FALSE], i, previousCenterIndex,
                      p1Index, p4Index).t

\* One iteration of the "Add Mid Cap" loop of the turn > 0 case of
\* _addSegment, on the state s of the loop.
TopJointSlice(s, i, previousCenterIndex, align) ==
    IF s.done THEN s
    ELSE IF ~(i < s.t.roundness) THEN [s EXCEPT !.done = TRUE]
    ELSE IF Cos(s.t, i) <= align
    THEN [t |-> PushTriangleData(s.t, previousCenterIndex, s.t.previous_p3Index,
                                 s.t.nextVertexIndex - 1),
          done |-> TRUE]
    ELSE LET t == s.t
             tds == t.thicknessDirectionScaled
             xSlice == t.previousPoint.x
                         + RoundDiv(-tds.x * (-Cos(t, i)) + tds.y * (-Sin(t, i)), U)
             ySlice == t.previousPoint.y
                         + RoundDiv(-tds.x * (-Sin(t, i)) - tds.y * (-Cos(t, i)), U)
             contourIndex == t.nextVertexIndex
             u == PushVertexData(t, xSlice, ySlice, 0, t.previous_length)
         IN  [s EXCEPT !.t = PushTriangleData(u, previousCenterIndex, contourIndex,
                                              contourIndex - 1)]

RECURSIVE TopJointLoop(_, _, _, _)
\* The loop from its iteration i on, four iterations at a time, until it
\* is left.
TopJointLoop(s, i, previousCenterIndex, align) ==
    IF s.done THEN s
    ELSE TopJointLoop(
             TopJointSlice(
                 TopJointSlice(
                     TopJointSlice(TopJointSlice(s, i, previousCenterIndex, align),
                                 i + 1, previousCenterIndex, align),
                     i + 2, previousCenterIndex, align),
                 i + 3, previousCenterIndex, align),
             i + 4, previousCenterIndex, align)

\* The "Add Mid Cap" loop of the turn > 0 case of _addSegment from its
\* iteration i on: a fan around the previous center from p4 (the vertex
\* pushed last before the loop) to the previous segment's p3.
TopJoint(t, i, previousCenterIndex, align) ==
    TopJointLoop([t |-> t, done |-> FALSE], i, previousCenterIndex, align).t

\* One iteration of the "Add Mid Cap" loop of the turn < 0 case of
\* _addSegment, on the state s of the loop.
BottomJointSlice(s, i, previousCenterIndex, p1Index, align) ==
    IF s.done THEN s
    ELSE IF ~(i < s.t.roundness) THEN [s EXCEPT !.done = TRUE]
    ELSE IF Cos(s.t, i) <= align
    THEN [t |-> IF i = 1
                THEN PushTriangleData(s.t, previousCenterIndex, p1Index,
                                      s.t.previous_p2Index)
                ELSE PushTriangleData(s.t, previousCenterIndex, p1Index,
                                      s.t.nextVertexIndex - 1),
          done |-> TRUE]
    ELSE LET t == s.t
             ptds == t.previous_thicknessDirectionScaled
             xSlice == t.previousPoint.x
                         + RoundDiv(-ptds.x * Cos(t, i) + ptds.y * Sin(t, i), U)
             ySlice == t.previousPoint.y
                         + RoundDiv(-ptds.x * Sin(t, i) - ptds.y * Cos(t, i), U)
             contourIndex == t.nextVertexIndex
             u == PushVertexData(t, xSlice, ySlice, 0, t.previous_length)
         IN  [s EXCEPT !.t =
                 IF i = 1
                 THEN PushTriangleData(u, previousCenterIndex, contourIndex,
                                       t.previous_p2Index)
                 ELSE PushTriangleData(u, previousCenterIndex, contourIndex,
                                       contourIndex - 1)]

RECURSIVE BottomJointLoop(_, _, _, _, _)
\* The loop from its iteration i on, four iterations at a time, until it
\* is left.
BottomJointLoop(s, i, previousCenterIndex, p1Index, align) ==
    IF s.done THEN s
    ELSE BottomJointLoop(
             BottomJointSlice(
                 BottomJointSlice(
                     BottomJointSlice(BottomJointSlice(s, i, previousCenterIndex, p1Index, align),
                                 i + 1, previousCenterIndex, p1Index, align),
                     i + 2, previousCenterIndex, p1Index, align),
                 i + 3, previousCenterIndex, p1Index, align),
             i + 4, previousCenterIndex, p1Index, align)

\* The "Add Mid Cap" loop of the turn < 0 case of _addSegment from its
\* iteration i on: a fan around the previous center from the previous
\* segment's p2 to p1.
BottomJoint(t, i, previousCenterIndex, p1Index, align) ==
    BottomJointLoop([t |-> t, done |-> FALSE], i, previousCenterIndex, p1Index,
                    align).t

\* dot_p1previous_p2_p1p2 of _addSegment, on the object after its quad:
\* the cosine between previous_p2 - p1 and p2 - p1.
Turn(t) ==
    Dot(Normalize(Subtract(t.previous_p2, t.p1)), Normalize(Subtract(t.p2, t.p1)))

\* dot_previous_translation_translation of _addSegment
Align(t) == Dot(t.previous_translation, t.translation)

\* The joint with nothing written for any aligned case, the reversal
\* included: the variant CollinearJoints is tried against.
JointWithoutReversal(t, previousCenterIndex, p1Index, p4Index) ==
    IF Turn(t) = 0 THEN t
    ELSE IF Turn(t) > 0
    THEN TopJoint(t, 1, previousCenterIndex, Align(t))
    ELSE BottomJoint(t, 1, previousCenterIndex, p1Index, Align(t))

\* The joint of _addSegment: the link between the previous segment and the
\* quad just pushed.
Joint(t, previousCenterIndex, p1Index, p4Index) ==
    IF Turn(t) = 0
    THEN IF Align(t) < 0
         THEN ReversalJoint(t, 1, previousCenterIndex, p1Index, p4Index)
         ELSE t
    ELSE IF Turn(t) > 0
    THEN TopJoint(t, 1, previousCenterIndex, Align(t))
    ELSE BottomJoint(t, 1, previousCenterIndex, p1Index, Align(t))

\* _addSegment from the joint on, on the object j the joint left: the next
\* segment starts at the triangles that follow the joint.
AddSegmentCap(j, p2Index, p3Index, totalDistance) ==
    SegmentCap(j, j.nextTriangleIndex, p2Index, p3Index, totalDistance)

\* History: the joint of a segment begins, on the object q its quad left,
\* around the previous center.
JointBegun(q, previousCenterIndex, p1Index, p4Index) ==
    [q EXCEPT !.h_log =
        Append(@, [k |-> "joint", i |-> previousCenterIndex,
                   turn |-> Turn(q), align |-> Align(q),
                   p1Index |-> p1Index, p4Index |-> p4Index,
                   previous_p2Index |-> q.previous_p2Index,
                   previous_p3Index |-> q.previous_p3Index])]

\* PathBufferData._addSegment
AddSegment(t) ==
    AddSegmentCap(
        Joint(JointBegun(SegmentQuad(SegmentFrame(t), TotalDistance(t)),
                         t.nextVertexIndex - 1, t.nextVertexIndex, t.nextVertexIndex + 3),
              t.nextVertexIndex - 1, t.nextVertexIndex, t.nextVertexIndex + 3),
        t.nextVertexIndex + 1, t.nextVertexIndex + 2, TotalDistance(t))

\* History: the path point (x, y) is about to be tessellated.
Record(t, x, y) ==
    [t EXCEPT !.h_log = Append(@, [k |-> "point", i |-> Len(t.h_path)]),
              !.h_path = Append(@, Vec(x, y))]

\* _addPoint: "Checks and expands buffer accordingly."
Expand(t) == IF ShouldExpand(t, 1) THEN ExpandBuffers(t) ELSE t

\* _addPoint: "Current point setup"
Place(t, x, y) == [t EXCEPT !.currentPoint = Vec(x, y)]

\* History: the step of the tessellator that handles the path point.
Step(t, name) == [t EXCEPT !.h_steps = Append(@, name)]

\* The dispatch of _addPoint without its second case, every path point
\* after the first going to _addSegment: the variant StateMachine is tried
\* against.
DrawWithoutFirstSegment(t) ==
    IF t.nextVertexIndex = 0 THEN StartPath(Step(t, "startPath"))
    ELSE AddSegment(Step(t, "addSegment"))

\* _addPoint: the start cap, the first segment or a later segment.
Draw(t) ==
    IF t.nextVertexIndex = 0 THEN StartPath(Step(t, "startPath"))
    ELSE IF t.nextVertexIndex = 1 THEN FirstSegment(Step(t, "firstSegment"))
    ELSE AddSegment(Step(t, "addSegment"))

\* _addPoint with the expansion check after the drawing: the variant
\* GrowthOrdering is tried against.
AddPointGrowingLast(t, x, y) ==
    [Expand(Draw(Place(Record(t, x, y), x, y))) EXCEPT !.previousPoint = Vec(x, y)]

\* PathBufferData._addPoint
AddPoint(t, x, y) ==
    [Draw(Place(Expand(Record(t, x, y)), x, y)) EXCEPT !.previousPoint = Vec(x, y)]

---------------------------------------------------------------------------
(* PathBufferData: smoothing. *)

\* The last raw point of _points, which holds x and y in turn.
LastRawPoint(t) == Vec(t.points[Len(t.points) - 1], t.points[Len(t.points)])

\* The mid point without the halving of the difference: the variant
\* LengthAfterSecondSampleIsHalfDistance is tried against.
MidPointUnscaled(t, x, y) ==
    LET previous == LastRawPoint(t)
        temp == Subtract(Vec(x, y), previous)
    IN  Add(temp, previous)

\* The mid point between the last raw point and (x, y), as _addMidPoint and
\* _addPointsSmoothly compute it: half the difference added to the last point.
MidPoint(t, x, y) ==
    LET previous == LastRawPoint(t)
        temp == Subtract(Vec(x, y), previous)
    IN  Add(Vec(RoundDiv(temp.x, 2), RoundDiv(temp.y, 2)), previous)

\* PathBufferData._addMidPoint
AddMidPoint(t, x, y) == AddPoint(t, MidPoint(t, x, y).x, MidPoint(t, x, y).y)

RECURSIVE SmoothSteps(_, _, _, _, _, _)
\* The loop of _addPointsSmoothly from its iteration step on: the points of
\* the quadratic Bezier from previous (the previousPoint when the loop
\* began) to mid, with the last raw point as control point.
SmoothSteps(t, step, steps, previous, control, mid) ==
    IF ~(step < steps) THEN t
    ELSE SmoothSteps(
             AddPoint(t,
                      QuadraticBezierEquation(step, steps, previous.x, control.x, mid.x),
                      QuadraticBezierEquation(step, steps, previous.y, control.y, mid.y)),
             step + 1, steps, previous, control, mid)

\* steps counted on the distance from the path point tessellated last: the
\* variant SmoothingCount is tried against.
StepsFromPathPoint(t, x, y) ==
    CeilDiv(Length(Subtract(Vec(x, y), t.previousPoint)), t.smoothingDistance)

\* steps of _addPointsSmoothly: the distance from the last raw point to
\* (x, y), in smoothing distances, rounded up.
Steps(t, x, y) ==
    CeilDiv(Length(Subtract(Vec(x, y), LastRawPoint(t))), t.smoothingDistance)

\* PathBufferData._addPointsSmoothly
AddPointsSmoothly(t, x, y) ==
    AddPoint(IF Steps(t, x, y) > 1
             THEN SmoothSteps(t, 1, Steps(t, x, y), t.previousPoint,
                              LastRawPoint(t), MidPoint(t, x, y))
             ELSE t,
             MidPoint(t, x, y).x, MidPoint(t, x, y).y)

\* The branch taken when the debounce counter is not consulted: the variant
\* DebounceCounter is tried against.
BranchUndebounced(t, x, y) ==
    IF Len(t.points) = 0 THEN "first"
    ELSE IF ~(t.previousPoint.x # x \/ t.previousPoint.y # y) THEN "same"
    ELSE IF ~(2 * Length(Subtract(Vec(x, y), t.previousPoint)) > t.radius) THEN "near"
    ELSE IF Len(t.points) <= 2 THEN "midPoint"
    ELSE "smooth"

\* The branch addPointToPath takes on (x, y).
Branch(t, x, y) ==
    IF Len(t.points) = 0 THEN "first"
    ELSE IF ~(t.previousPoint.x # x \/ t.previousPoint.y # y) THEN "same"
    ELSE IF (t.currentDebounce + 1) % t.debounce # 0 THEN "debounced"
    ELSE IF ~(2 * Length(Subtract(Vec(x, y), t.previousPoint)) > t.radius) THEN "near"
    ELSE IF Len(t.points) <= 2 THEN "midPoint"
    ELSE "smooth"

\* addPointToPath: "Reset the changes" (and the log of the call).
Reset(t) ==
    [t EXCEPT !.currentChanges = UnsetChanges, !.h_log = <<>>, !.h_grown = <<>>]

\* addPointToPath: this._points.push(x, y)
Push(t, x, y) == [t EXCEPT !.points = @ \o <<x, y>>]

\* addPointToPath: the debounce counter advanced.
Counted(t) == [t EXCEPT !.currentDebounce = (@ + 1) % t.debounce]

\* addPointToPath: the counter advanced and the distance from the previous
\* point taken, which leaves the difference in _currentPoint.
Measured(t, x, y) ==
    [Counted(t) EXCEPT !.currentPoint = Subtract(Vec(x, y), t.previousPoint)]

\* Dispatch tessellating the samples the minimum-step test rejects: the
\* variant FilteredSampleIsNoOp is tried against.
DispatchKeepingNear(t, branch, x, y) ==
    CASE branch = "first" -> Push(AddPoint(t, x, y), x, y)
      [] branch = "same" -> Push(t, x, y)
      [] branch = "debounced" -> Counted(t)
      [] branch = "near" -> Push(AddMidPoint(Measured(t, x, y), x, y), x, y)
      [] branch = "midPoint" -> Push(AddMidPoint(Measured(t, x, y), x, y), x, y)
      [] branch = "smooth" -> Push(AddPointsSmoothly(Measured(t, x, y), x, y), x, y)

\* Dispatch smoothing on the mid-point branch too: the variant
\* MidPointFallback is tried against.
DispatchSmoothingAtOnce(t, branch, x, y) ==
    CASE branch = "first" -> Push(AddPoint(t, x, y), x, y)
      [] branch = "same" -> Push(t, x, y)
      [] branch = "debounced" -> Counted(t)
      [] branch = "near" -> Push(Measured(t, x, y), x, y)
      [] branch = "midPoint" -> Push(AddPointsSmoothly(Measured(t, x, y), x, y), x, y)
      [] branch = "smooth" -> Push(AddPointsSmoothly(Measured(t, x, y), x, y), x, y)

\* Dispatch appending the debounced samples to _points as well: the variant
\* RawHistory is tried against.
DispatchPushingDebounced(t, branch, x, y) ==
    CASE branch = "first" -> Push(AddPoint(t, x, y), x, y)
      [] branch = "same" -> Push(t, x, y)
      [] branch = "debounced" -> Push(Counted(t), x, y)
      [] branch = "near" -> Push(Measured(t, x, y), x, y)
      [] branch = "midPoint" -> Push(AddMidPoint(Measured(t, x, y), x, y), x, y)
      [] branch = "smooth" -> Push(AddPointsSmoothly(Measured(t, x, y), x, y), x, y)

\* addPointToPath after the reset of the changes, on the branch it takes.
Dispatch(t, branch, x, y) ==
    CASE branch = "first" -> Push(AddPoint(t, x, y), x, y)
      [] branch = "same" -> Push(t, x, y)
      [] branch = "debounced" -> Counted(t)
      [] branch = "near" -> Push(Measured(t, x, y), x, y)
      [] branch = "midPoint" -> Push(AddMidPoint(Measured(t, x, y), x, y), x, y)
      [] branch = "smooth" -> Push(AddPointsSmoothly(Measured(t, x, y), x, y), x, y)


\* PathBufferData.addPointToPath: the object after the call.  The changes
\* it returns are the currentChanges of that object.
AddPointToPath(t, x, y) ==
    Dispatch(Reset(t), Branch(t, x, y), x, y)

---------------------------------------------------------------------------
(* PathMesh (src/unnamed/part_002, the current revision): the mesh that    *)
(* owns a PathBufferData and keeps the buffers of the GPU up to date.  A    *)
(* mesh is a record m, its _pathData is the object t.                       *)

\* The value of mesh where a PathBufferData is used on its own.
NoMesh == [h_after |-> "none"]

\* No InkCanvas: the value of canvas where a PathBufferData or a PathMesh is
\* followed on its own.
NoCanvas == [h_op |-> "none"]

\* PathMesh._resetCurrentChanges
ResetCurrentChanges(m) == [m EXCEPT !.currentChanges = UnsetChanges]

\* PathMesh._createGeometry: setIndices and setVerticesData hand the whole
\* buffers of t to the GPU.
CreateGeometry(m, t) ==
    [m EXCEPT !.indicesBuffer = t.indices,
              !.positionsBuffer = t.positions,
              !.distancesBuffer = t.distances,
              !.indexCount = t.indicesCount,
              !.currentPositionsBufferLength = ArrayLength(t.positions)]

\* The PathMesh constructor, given the PathBufferData t it has created and
\* added the start point to.
PathMeshConstructor(t) ==
    CreateGeometry(
        ResetCurrentChanges(
            [currentChanges |->
                 [indexStart |-> 0, indexEnd |-> 0,
                  vertexPositionStart |-> 0, vertexPositionEnd |-> 0,
                  vertexDistanceStart |-> 0, vertexDistanceEnd |-> 0],
             indicesBuffer |-> <<>>, positionsBuffer |-> <<>>,
             distancesBuffer |-> <<>>, indexCount |-> 0,
             currentPositionsBufferLength |-> 0,
             h_after |-> "constructor", h_upload |-> "whole", h_lost |-> FALSE,
             h_vertices |-> {}, h_triangles |-> {},
             h_dirtyVertices |-> {}, h_dirtyTriangles |-> {}]),
        t)

\* PathMesh.addPointToPath after the call of _pathData.addPointToPath,
\* which returned changes.
Accumulate(m, changes) ==
    [m EXCEPT !.currentChanges =
        [indexStart |-> Min(@.indexStart, changes.indexStart),
         indexEnd |-> Max(@.indexEnd, changes.indexEnd),
         vertexPositionStart |-> Min(@.vertexPositionStart, changes.vertexPositionStart),
         vertexPositionEnd |-> Max(@.vertexPositionEnd, changes.vertexPositionEnd),
         vertexDistanceStart |-> Min(@.vertexDistanceStart, changes.vertexDistanceStart),
         vertexDistanceEnd |-> Max(@.vertexDistanceEnd, changes.vertexDistanceEnd)]]

\* The elements srcOffset .. srcOffset + srcLength - 1 of data lie within
\* data.
InRange(data, srcOffset, srcLength) == srcOffset + srcLength <= ArrayLength(data)

\* gl.bufferSubData(target, srcOffset * 4, data, srcOffset, srcLength) on
\* the GPU buffer gpu, which is as long as data: the elements are copied,
\* or, when they do not lie within data, INVALID_VALUE is raised and
\* nothing is copied.
BufferSubData(gpu, data, srcOffset, srcLength) ==
    IF InRange(data, srcOffset, srcLength)
    THEN [i \in DOMAIN gpu |->
             IF srcOffset <= i /\ i < srcOffset + srcLength THEN data[i] ELSE gpu[i]]
    ELSE gpu

\* _updateGeometry: the upload of the changed indices, if any.
UploadIndices(m, t) ==
    IF m.currentChanges.indexStart = NumberMaxValue THEN m
    ELSE [m EXCEPT !.indicesBuffer =
             BufferSubData(@, t.indices, m.currentChanges.indexStart,
                           m.currentChanges.indexEnd - m.currentChanges.indexStart + 3)]

\* _updateGeometry: the upload of the changed positions, if any.
UploadPositions(m, t) ==
    IF m.currentChanges.vertexPositionStart = NumberMaxValue THEN m
    ELSE [m EXCEPT !.positionsBuffer =
             BufferSubData(@, t.positions, m.currentChanges.vertexPositionStart,
                           m.currentChanges.vertexPositionEnd
                               - m.currentChanges.vertexPositionStart + 3)]

\* _updateGeometry: the upload of the changed distances, under the test of
\* the positions.
UploadDistances(m, t) ==
    IF m.currentChanges.vertexPositionStart = NumberMaxValue THEN m
    ELSE [m EXCEPT !.distancesBuffer =
             BufferSubData(@, t.distances, m.currentChanges.vertexDistanceStart,
                           m.currentChanges.vertexDistanceEnd
                               - m.currentChanges.vertexDistanceStart + 1)]

\* Under WebGL 1 indexBufferSubData and vertexBufferSubData make a view of
\* the elements to copy, and the typed-array constructor throws a
\* RangeError when they do not lie within the buffer.
IndicesViewThrows(m, t) ==
    /\ m.currentChanges.indexStart # NumberMaxValue
    /\ ~InRange(t.indices, m.currentChanges.indexStart,
                m.currentChanges.indexEnd - m.currentChanges.indexStart + 3)

PositionsViewThrows(m, t) ==
    /\ m.currentChanges.vertexPositionStart # NumberMaxValue
    /\ ~InRange(t.positions, m.currentChanges.vertexPositionStart,
                m.currentChanges.vertexPositionEnd
                    - m.currentChanges.vertexPositionStart + 3)

DistancesViewThrows(m, t) ==
    /\ m.currentChanges.vertexPositionStart # NumberMaxValue
    /\ ~InRange(t.distances, m.currentChanges.vertexDistanceStart,
                m.currentChanges.vertexDistanceEnd
                    - m.currentChanges.vertexDistanceStart + 1)

\* The tail of _updateGeometry: the draw count, the length held on to and
\* the reset of the changes.
GeometryUpdated(m, t) ==
    ResetCurrentChanges(
        [m EXCEPT !.indexCount = t.indicesCount,
                  !.currentPositionsBufferLength = ArrayLength(t.positions)])

\* PathMesh._updateGeometry under WebGL webGLVersion.  The buffers that
\* have been recreated are handed over whole; otherwise the changed
\* elements are copied, and an exception leaves the method where it is
\* thrown.
UpdateGeometry(m, t, webGLVersion) ==
    IF m.currentPositionsBufferLength # ArrayLength(t.positions)
    THEN GeometryUpdated(CreateGeometry(m, t), t)
    ELSE IF webGLVersion = 1 /\ IndicesViewThrows(m, t) THEN m
    ELSE IF webGLVersion = 1 /\ PositionsViewThrows(m, t) THEN UploadIndices(m, t)
    ELSE IF webGLVersion = 1 /\ DistancesViewThrows(m, t)
         THEN UploadPositions(UploadIndices(m, t), t)
    ELSE GeometryUpdated(UploadDistances(UploadPositions(UploadIndices(m, t), t), t), t)

---------------------------------------------------------------------------
(* The tessellator fed with raw samples. *)

\* The options a run may be created with.
OptionPresets ==
    { [radius |-> Number(5), roundness |-> Number(16), debounce |-> Number(1),
       smoothingDistance |-> Number(20)],
      [radius |-> Number(5), roundness |-> Number(45),
       smoothingDistance |-> Number(40)],
      [radius |-> Number(2), roundness |-> Number(5), debounce |-> Number(2),
       smoothingDistance |-> Number(5)],
      [roundness |-> Number(4), debounce |-> Number(3)],
      [roundness |-> Number(16), smoothingDistance |-> Number(5)] }

\* The raw samples a call may be given, in whole units.
SamplePool ==
    { <<8, 0>>, <<16, 0>>, <<24, 0>>, <<14, 7>>, <<0, 1>>, <<17, 2>> }

Init ==
    /\ \E o \in OptionPresets : pbd = Constructor(o)
    /\ pre = pbd
    /\ samples = <<>>
    /\ outcome = "created"
    /\ mesh = NoMesh
    /\ canvas = NoCanvas

\* One addPointToPath(x, y) call.
AddPointCall ==
    /\ Len(samples) < MaxCalls
    /\ \E s \in SamplePool :
          LET x == s[1] * Q
              y == s[2] * Q
          IN  /\ pbd' = AddPointToPath(pbd, x, y)
              /\ pre' = pbd
              /\ samples' = Append(samples, Vec(x, y))
              /\ outcome' = Branch(pbd, x, y)
    /\ UNCHANGED <<mesh, canvas>>

Next == AddPointCall

Spec == Init /\ [][Next]_vars

---------------------------------------------------------------------------
(* The constructor given options of any kind. *)

\* The values a field of the options may be given as.
OptionValues ==
    { Undefined, Null, NaN, Text,
      Number(0), Number(3), Number(4), Number(7), Number(30) }

\* The options a tessellator may be created with: any of the four fields
\* left out or given as one of OptionValues.
OptionInputs ==
    UNION { [F -> OptionValues] : F \in SUBSET DOMAIN DefaultOptions }

\* Before new PathBufferData(options): pre is the options argument, pbd the
\* default options.
OptionsInit ==
    /\ pre \in OptionInputs
    /\ pbd = DefaultOptions
    /\ samples = <<>>
    /\ outcome = "options"
    /\ mesh = NoMesh
    /\ canvas = NoCanvas

\* new PathBufferData(pre), as far as the options go: pbd is _smoothingDistance,
\* _debounce, _roundness and _radius of the new instance.
Create ==
    /\ outcome = "options"
    /\ pbd' = EffectiveOptions(pre)
    /\ outcome' = "constructed"
    /\ UNCHANGED <<pre, samples, mesh, canvas>>

OptionsNext == Create

OptionsSpec == OptionsInit /\ [][OptionsNext]_vars

---------------------------------------------------------------------------
(* The tessellator with a roundness whose slices drift below pi. *)

\* The vertices the buffers start with in FanSpec.  As the 10000 of the
\* source does, it holds the caps and the joints of a roundness-150 path of
\* MaxCalls calls without any growth.
FanStartSize == 800

\* The options of FanSpec: roundness 150, whose 75th slice angle is a double
\* below Math.PI, and roundness 5 and 16, whose slices reach pi exactly or
\* step over it.
FanPresets ==
    { [roundness |-> Number(150)], [roundness |-> Number(16)],
      [roundness |-> Number(5), radius |-> Number(2)] }

\* new PathBufferData(options) with buffers of size vertices.
ConstructorOfSize(options, size) ==
    CreateBuffers([Constructor(options) EXCEPT !.maxVerticesCount = size], size)

FanInit ==
    /\ \E o \in FanPresets : pbd = ConstructorOfSize(o, FanStartSize)
    /\ pre = pbd
    /\ samples = <<>>
    /\ outcome = "created"
    /\ mesh = NoMesh
    /\ canvas = NoCanvas

FanSpec == FanInit /\ [][Next]_vars

---------------------------------------------------------------------------
(* The tessellator of a roundness that is large against its buffers. *)

\* The vertices the buffers start with in WideSpec.  Roundness 150 is to
\* it what a roundness above 40000 is to the 10000 of the source: the
\* first path point grows the buffers once, and the slices of the start
\* cap are more than twice the vertices of the grown buffers.
WideStartSize == 32

WideInit ==
    /\ pbd = ConstructorOfSize([roundness |-> Number(150)], WideStartSize)
    /\ pre = pbd
    /\ samples = <<>>
    /\ outcome = "created"
    /\ mesh = NoMesh
    /\ canvas = NoCanvas

WideSpec == WideInit /\ [][Next]_vars

---------------------------------------------------------------------------
(* What the last call did, read from the history. *)

\* The raw sample of the last call.
LastSample == samples[Len(samples)]

\* The raw sample before the one of the last call: the last sample the
\* tessellator recorded (it does not record a debounced sample).
PreviousSample == LastRawPoint(pre)

\* The positions in the log of the last call of the events of kind k.
Events(k) == { n \in 1 .. Len(pbd.h_log) : pbd.h_log[n].k = k }

\* The last call tessellated at least one path point.
Tessellated == Events("point") # {}

\* The vertex capacity in force when event n of the log happened: the size of
\* the last growth before it, or the capacity the call began with.
CapacityAt(n) ==
    LET grown == { m \in Events("expand") : m < n }
    IN  IF grown = {} THEN pre.maxVerticesCount
        ELSE pbd.h_log[CHOOSE m \in grown : \A o \in grown : o <= m].i

\* The fields of the geometry a caller can read.
Geometry(t) ==
    [positions |-> t.positions, distances |-> t.distances,
     indices |-> t.indices, indicesCount |-> t.indicesCount,
     nextVertexIndex |-> t.nextVertexIndex,
     nextTriangleIndex |-> t.nextTriangleIndex,
     maxVerticesCount |-> t.maxVerticesCount,
     totalLength |-> TotalLength(t)]

---------------------------------------------------------------------------
(* C1 *)

\* C1: after each addPointToPath call, nextVertexIndex is at most
\* len(positions)/3 and 3*nextTriangleIndex is at most len(indices), for
\* every options setting and every sequence of calls.
CapacityInvariant ==
    /\ 3 * pbd.nextVertexIndex <= ArrayLength(pbd.positions)
    /\ 3 * pbd.nextTriangleIndex <= ArrayLength(pbd.indices)


\* With roundness 45 the samples (16,0), (24,0), (0,1) turn the path back
\* by 176 degrees when the vertex cursor is 28 of 76: no growth is asked
\* for, the joint fan never closes, and the call ends with the cursor above
\* the capacity.
CapacityExceeded ==
    /\ pbd.roundness = 45
    /\ samples = <<Vec(16 * Q, 0), Vec(24 * Q, 0), Vec(0, 1 * Q)>>
    /\ ~ShouldExpand(pre, 1)
    /\ 3 * pbd.nextVertexIndex > ArrayLength(pbd.positions)

---------------------------------------------------------------------------
(* C2 *)

\* C2: every vertex written while one path point is processed is written
\* at an index strictly below the vertex capacity in force at that moment,
\* for every roundness and every turn angle.
HeadroomCoversWorstCase ==
    \A n \in Events("vertex") : pbd.h_log[n].i < CapacityAt(n)


\* A call that tessellated one path point without growing the buffers
\* wrote a vertex at or above the capacity.
VertexWrittenAboveCapacity ==
    /\ Cardinality(Events("point")) = 1
    /\ Events("expand") = {}
    /\ \E n \in Events("vertex") : pbd.h_log[n].i >= pbd.maxVerticesCount

---------------------------------------------------------------------------
(* C3 *)

\* The positions and the distance of vertex i of t.
VertexData(t, i) ==
    <<t.positions[3 * i], t.positions[3 * i + 1], t.positions[3 * i + 2],
      t.distances[i]>>

---------------------------------------------------------------------------
(* C4 *)

\* C4: a call whose coordinates are those of the immediately preceding raw
\* sample is ignored: it tessellates nothing, returns the unset change
\* region, grows no buffer and leaves the debounce counter as it was.
DuplicateRejection ==
    (Len(samples) >= 2 /\ LastSample = PreviousSample) =>
        /\ ~Tessellated
        /\ pbd.currentChanges = UnsetChanges
        /\ pbd.maxVerticesCount = pre.maxVerticesCount
        /\ pbd.currentDebounce = pre.currentDebounce


\* With debounce 1, a sample equal to the sample of the call before it was
\* tessellated: the path had moved to a mid point in between.
DuplicateTessellated ==
    /\ pbd.debounce = 1
    /\ Len(samples) >= 2
    /\ LastSample = samples[Len(samples) - 1]
    /\ LastSample = PreviousSample
    /\ Tessellated

---------------------------------------------------------------------------
(* C5 *)

\* C5: a sample after the first that is not debounced is ignored (nothing
\* tessellated, unset change region) exactly when its distance to the
\* previous raw sample is at most radius/2.
MinimumStepFromRawSample ==
    (Len(samples) >= 2 /\ outcome # "debounced") =>
        LET dist == Length(Subtract(LastSample, PreviousSample))
        IN  IF 2 * dist <= pbd.radius
            THEN ~Tessellated /\ pbd.currentChanges = UnsetChanges
            ELSE Tessellated


\* With debounce 1, a sample within radius/2 of the sample before it, and
\* different from it, was tessellated.
NearbySampleTessellated ==
    /\ pbd.debounce = 1
    /\ Len(samples) >= 2
    /\ LastSample # PreviousSample
    /\ 2 * Length(Subtract(LastSample, PreviousSample)) <= pbd.radius
    /\ Tessellated

---------------------------------------------------------------------------
(* C6 *)

\* C6: a call rejected as a duplicate, by the debounce counter or by the
\* minimum-step test leaves positions, distances, indices, indicesCount,
\* nextVertexIndex, nextTriangleIndex, the capacity and totalLength exactly
\* as they were before the call.
FilteredSampleIsNoOp ==
    outcome \in {"same", "debounced", "near"} => Geometry(pbd) = Geometry(pre)

\* A sample was rejected by the minimum-step test on a path that already
\* has a segment.
FilteredSampleIsNoOpWitness ==
    /\ outcome = "near"
    /\ pre.nextVertexIndex > 1
    /\ pre.indicesCount > 0

---------------------------------------------------------------------------
(* C7 *)

\* C7: the first call on a new tessellator of roundness r writes exactly
\* 1 + r vertices, the center at the sample and r contour vertices at the
\* radius around it, and r triangles, triangle i joining the center to the
\* contour vertices i + 1 and i + 2 (the last one wrapping to the first);
\* indicesCount is 3 * r and totalLength is 0.
StartCapShape ==
    Len(samples) = 1 =>
        LET r == pbd.roundness
            vertexLog == [n \in 1 .. 1 + r |-> [k |-> "vertex", i |-> n - 1]]
            written(k) == { pbd.h_log[n].i : n \in Events(k) }
        IN  /\ Cardinality(Events("vertex")) = 1 + r
            /\ written("vertex") = 0 .. r
            /\ pbd.h_written = 1 + r
            /\ Cardinality(Events("triangle")) = r
            /\ written("triangle") = 0 .. r - 1
            /\ VertexData(pbd, 0) = <<LastSample.x, LastSample.y, 0, 0>>
            /\ \A i \in 1 .. r :
                  LET dx == pbd.positions[3 * i] - LastSample.x
                      dy == pbd.positions[3 * i + 1] - LastSample.y
                  IN  /\ Abs(Sqrt(dx * dx + dy * dy) - pbd.radius) <= 2
                      /\ pbd.positions[3 * i + 2] = 0
                      /\ pbd.distances[i] = 0
            /\ \A i \in 0 .. r - 1 :
                  /\ pbd.indices[3 * i] = 0
                  /\ pbd.indices[3 * i + 1] = ((i + 1) % r) + 1
                  /\ pbd.indices[3 * i + 2] = i + 1
            /\ pbd.indicesCount = 3 * r
            /\ TotalLength(pbd) = 0

\* The start cap of a roundness-16 tessellator: 17 vertices, 16 triangles,
\* indicesCount 48.
StartCapShapeWitness ==
    /\ Len(samples) = 1
    /\ pbd.roundness = 16
    /\ pbd.h_written = 17
    /\ pbd.indicesCount = 48

---------------------------------------------------------------------------
(* C8 *)

\* C8, as the specification states it: after the first point P and one
\* accepted sample Q, totalLength is the distance from P to Q.
LengthAfterSecondSampleIsDistance ==
    (Len(samples) = 2 /\ Tessellated) =>
        Abs(TotalLength(pbd) - Length(Subtract(samples[2], samples[1]))) <= 2

\* C8, as the code has it: after the first point P and one accepted sample
\* Q the path ends at the mid point of P and Q, and totalLength is half the
\* distance from P to Q (50 for P = (0,0) and Q = (100,0)).
LengthAfterSecondSampleIsHalfDistance ==
    (Len(samples) = 2 /\ Tessellated) =>
        /\ pbd.h_path = <<samples[1],
                          Vec((samples[1].x + samples[2].x) \div 2,
                              (samples[1].y + samples[2].y) \div 2)>>
        /\ Abs(2 * TotalLength(pbd) - Length(Subtract(samples[2], samples[1]))) <= 2

\* With radius 5, roundness 16, debounce 1 and smoothingDistance 20, the
\* sample (24, 0) was accepted after the first point (8, 0): the length is 8.
LengthAfterSecondSampleWitness ==
    /\ pbd.options = [radius |-> Number(5), roundness |-> Number(16),
                      debounce |-> Number(1), smoothingDistance |-> Number(20)]
    /\ samples = <<Vec(8 * Q, 0), Vec(24 * Q, 0)>>
    /\ Tessellated
    /\ TotalLength(pbd) = 8 * Q

---------------------------------------------------------------------------
(* C9 *)

RECURSIVE PathLength(_)
\* The sum of the distances between the consecutive points of a path.
PathLength(path) ==
    IF Len(path) < 2 THEN 0
    ELSE PathLength(SubSeq(path, 1, Len(path) - 1))
             + Length(Subtract(path[Len(path)], path[Len(path) - 1]))

\* C9: totalLength never decreases, is 0 until a second path point is
\* tessellated, and is the sum of the distances between the consecutive
\* path points tessellated (mid points and Bezier points, not raw samples).
ArcLength ==
    /\ TotalLength(pbd) >= TotalLength(pre)
    /\ Len(pbd.h_path) < 2 => TotalLength(pbd) = 0
    /\ TotalLength(pbd) = PathLength(pbd.h_path)

\* One call tessellated a Bezier point and a mid point, and the length grew.
ArcLengthWitness ==
    /\ Cardinality(Events("point")) >= 2
    /\ Len(pbd.h_path) >= 4
    /\ TotalLength(pbd) > TotalLength(pre)
    /\ TotalLength(pre) > 0

---------------------------------------------------------------------------
(* C10 *)

\* C10: the first sample is tessellated whatever the debounce d and leaves
\* the counter alone.  After it a sample rejected as a duplicate (of
\* previousPoint, which is what the code compares with) leaves the counter
\* alone, and every other sample advances it by one modulo d: if the
\* counter is not 0 then, the call returns at once with the unset change
\* region; if it is 0 the sample goes to the minimum-step test, which alone
\* decides whether it is tessellated.
DebounceCounter ==
    IF Len(samples) = 0 THEN pbd.currentDebounce = 0
    ELSE IF Len(samples) = 1
    THEN Tessellated /\ pbd.currentDebounce = pre.currentDebounce
    ELSE IF LastSample = pre.previousPoint
    THEN ~Tessellated /\ pbd.currentDebounce = pre.currentDebounce
    ELSE /\ pbd.currentDebounce = (pre.currentDebounce + 1) % pbd.debounce
         /\ pbd.currentDebounce # 0 =>
               /\ ~Tessellated
               /\ pbd.currentChanges = UnsetChanges
               /\ pbd.points = pre.points
         /\ pbd.currentDebounce = 0 =>
               /\ Tessellated <=>
                     2 * Length(Subtract(LastSample, pre.previousPoint)) > pbd.radius
               /\ pbd.points = pre.points \o <<LastSample.x, LastSample.y>>

\* With debounce 3 the second and the third sample returned at once and the
\* fourth, on which the counter is 0 again, was tessellated.
DebounceCounterWitness ==
    /\ pbd.debounce = 3
    /\ Len(samples) = 4
    /\ Len(pbd.points) = 4
    /\ pbd.currentDebounce = 0
    /\ Tessellated

---------------------------------------------------------------------------
(* C11 *)

RECURSIVE Feed(_, _)
\* The tessellator t after one addPointToPath call for each sample of seq,
\* in turn.
Feed(t, seq) ==
    IF seq = <<>> THEN t
    ELSE Feed(AddPointToPath(t, Head(seq).x, Head(seq).y), Tail(seq))

\* seq with each of its samples given n times in a row.
Repeated(seq, n) == [k \in 1 .. n * Len(seq) |-> seq[((k - 1) \div n) + 1]]

\* The samples so far all differ from the sample before them.
SamplesDiffer == \A k \in 2 .. Len(samples) : samples[k] # samples[k - 1]

\* The buffers and the counts a consumer reads.
Buffers(t) ==
    [positions |-> t.positions, distances |-> t.distances,
     indices |-> t.indices, indicesCount |-> t.indicesCount,
     totalLength |-> TotalLength(t)]

\* The tessellator created with the options of pbd but debounce 3 and fed
\* every sample so far three times in a row: a sequence in which only
\* every third sample differs from the one before it.
DebouncedTwin ==
    Feed(Constructor([pbd.options EXCEPT !.debounce = Number(3)]), Repeated(samples, 3))

\* C11: a tessellator created with debounce 3 and fed a sequence in which
\* only every third sample differs from the sample before it holds the same
\* positions, distances, indices, indicesCount and totalLength as a
\* tessellator created with debounce 1, the other options equal, and fed
\* the differing samples only.
DebounceIdempotence ==
    (pbd.debounce = 1 /\ Len(samples) >= 1 /\ SamplesDiffer) =>
        Buffers(DebouncedTwin) = Buffers(pbd)

\* With smoothingDistance 20 the samples (0,1), (24,0), 24.02 apart: the
\* debounce-1 tessellator takes the mid point alone, the debounce-3
\* tessellator, which holds three raw points when (24,0) is accepted,
\* smooths and takes a Bezier point before the mid point.
DebouncedTwinSmoothsEarlier ==
    /\ pbd.debounce = 1
    /\ samples = <<Vec(0, 1 * Q), Vec(24 * Q, 0)>>
    /\ Len(pbd.h_path) = 2
    /\ Len(DebouncedTwin.h_path) = 3
    /\ DebouncedTwin.h_path[3] = pbd.h_path[2]
    /\ Buffers(DebouncedTwin) # Buffers(pbd)

---------------------------------------------------------------------------
(* C12 *)

\* The vertices the last call stored: the "vertex" events at an index below
\* the capacity in force (a store above it is dropped).
StoredVertices ==
    { pbd.h_log[n].i : n \in { m \in Events("vertex") : pbd.h_log[m].i < CapacityAt(m) } }

\* The triangles the last call stored: the "triangle" events within the
\* indices buffer, which holds two triangles per vertex of the capacity.
StoredTriangles ==
    { pbd.h_log[n].i : n \in { m \in Events("triangle") : pbd.h_log[m].i < 2 * CapacityAt(m) } }

\* The smallest and the largest element of a non-empty set of numbers.
Least(S) == CHOOSE a \in S : \A b \in S : a <= b

Greatest(S) == CHOOSE a \in S : \A b \in S : a >= b

\* C12: a call leaves the change region unset for a buffer it wrote nothing
\* to; for a buffer it wrote to, the start is the smallest and the end the
\* largest offset of an element group written during the call (3 per
\* vertex in positions, 1 in distances, 3 per triangle in indices); the
\* starts hold the unset value exactly when the call wrote nothing.
ChangeTracking ==
    Len(samples) >= 1 =>
        LET c == pbd.currentChanges
        IN  /\ IF StoredVertices = {}
               THEN /\ c.vertexPositionStart = NumberMaxValue
                    /\ c.vertexPositionEnd = 0
                    /\ c.vertexDistanceStart = NumberMaxValue
                    /\ c.vertexDistanceEnd = 0
               ELSE /\ c.vertexPositionStart = 3 * Least(StoredVertices)
                    /\ c.vertexPositionEnd = 3 * Greatest(StoredVertices)
                    /\ c.vertexDistanceStart = Least(StoredVertices)
                    /\ c.vertexDistanceEnd = Greatest(StoredVertices)
            /\ IF StoredTriangles = {}
               THEN c.indexStart = NumberMaxValue /\ c.indexEnd = 0
               ELSE /\ c.indexStart = 3 * Least(StoredTriangles)
                    /\ c.indexEnd = 3 * Greatest(StoredTriangles)
            /\ (c = UnsetChanges) <=> (StoredVertices = {} /\ StoredTriangles = {})

\* A call that grew no buffer returned a position range that ends above
\* the last vertex of the buffer: the vertices of the range from the
\* capacity on were never stored.
ChangeRegionBeyondBuffer ==
    /\ Len(samples) >= 1
    /\ Events("expand") = {}
    /\ StoredVertices # {}
    /\ pbd.currentChanges.vertexPositionEnd >= ArrayLength(pbd.positions)
    /\ pbd.currentChanges.vertexPositionEnd > 3 * Greatest(StoredVertices)

\* ChangeTracking for the calls whose stores all fell within the buffers.
ChangeTrackingWithinBuffers ==
    (\A n \in Events("vertex") : pbd.h_log[n].i < CapacityAt(n)) => ChangeTracking

---------------------------------------------------------------------------
(* C13 *)

\* C13: after every call indicesCount is a multiple of 3, is not smaller
\* than after the call before, is at most the length of indices, and every
\* vertex index stored in indices[0 .. indicesCount) is the index of a
\* vertex that was written and is below the vertex capacity.
ValidIndexPrefix ==
    /\ pbd.indicesCount % 3 = 0
    /\ pbd.indicesCount >= pre.indicesCount
    /\ pbd.indicesCount <= ArrayLength(pbd.indices)
    /\ \A k \in 0 .. pbd.indicesCount - 1 :
          /\ pbd.indices[k] < pbd.h_written
          /\ pbd.indices[k] < pbd.maxVerticesCount

\* After a call that grew no buffer, a triangle of the valid prefix points
\* at a vertex at or above the capacity, whose store was dropped.
TriangleOfUnstoredVertex ==
    /\ Events("expand") = {}
    /\ pbd.indicesCount <= ArrayLength(pbd.indices)
    /\ \E k \in 0 .. pbd.indicesCount - 1 :
          /\ pbd.indices[k] >= pbd.maxVerticesCount
          /\ pbd.indices[k] < pbd.h_written

\* ValidIndexPrefix for the calls whose stores all fell within the buffers.
ValidIndexPrefixWithinBuffers ==
    pbd.h_written <= pbd.maxVerticesCount => ValidIndexPrefix

---------------------------------------------------------------------------
(* C14 *)

\* C14: the buffers grow when, and only when, a path point finds the
\* headroom insufficient; a growth doubles the three buffers together
\* (lengths 3N, N, 6N become 6N, 2N, 12N) and every element of the old
\* buffers keeps its value in the new ones; the capacity never decreases.
\* Every path point after the first moves the vertex cursor up by at least
\* 5 (its quad and the center of its end cap), so that a path of more
\* points than the initial capacity has vertices cannot have been
\* tessellated without a growth.
BufferGrowth ==
    /\ \A g \in 1 .. Len(pbd.h_grown) :
          LET old == pbd.h_grown[g].old
              new == pbd.h_grown[g].new
          IN  /\ ArrayLength(old.indices) = 2 * ArrayLength(old.positions)
              /\ ArrayLength(old.positions) = 3 * ArrayLength(old.distances)
              /\ ArrayLength(new.positions) = 2 * ArrayLength(old.positions)
              /\ ArrayLength(new.distances) = 2 * ArrayLength(old.distances)
              /\ ArrayLength(new.indices) = 2 * ArrayLength(old.indices)
              /\ \A i \in DOMAIN old.positions : new.positions[i] = old.positions[i]
              /\ \A i \in DOMAIN old.distances : new.distances[i] = old.distances[i]
              /\ \A i \in DOMAIN old.indices : new.indices[i] = old.indices[i]
    /\ Len(pbd.h_grown) = Cardinality(Events("expand"))
    /\ Cardinality(Events("point")) = 1 => (Events("expand") # {} <=> ShouldExpand(pre, 1))
    /\ pbd.maxVerticesCount >= pre.maxVerticesCount
    /\ ArrayLength(pbd.positions) = 3 * pbd.maxVerticesCount
    /\ ArrayLength(pbd.distances) = pbd.maxVerticesCount
    /\ ArrayLength(pbd.indices) = 6 * pbd.maxVerticesCount
    /\ pre.nextVertexIndex >= 1 =>
          pbd.nextVertexIndex >= pre.nextVertexIndex + 5 * Cardinality(Events("point"))

\* A call grew the buffers from 76 to 152 vertices over a path that already
\* had triangles and vertices away from 0 in them.
BufferGrowthWitness ==
    /\ Len(pbd.h_grown) = 1
    /\ pre.maxVerticesCount = VerticesStartSize
    /\ pbd.maxVerticesCount = 2 * VerticesStartSize
    /\ pre.indicesCount > 0
    /\ \E i \in DOMAIN pbd.h_grown[1].old.positions : pbd.h_grown[1].old.positions[i] # 0
    /\ \E i \in DOMAIN pbd.h_grown[1].old.indices : pbd.h_grown[1].old.indices[i] # 0

---------------------------------------------------------------------------
(* C15 *)

\* C15: a growth of the buffers comes right after the start of a path
\* point, before the first vertex or triangle written for it: never
\* between two writes of one path point, and at most once per path point.
GrowthOrdering ==
    \A n \in Events("expand") :
        /\ n >= 2
        /\ pbd.h_log[n - 1].k = "point"
        /\ n < Len(pbd.h_log)
        /\ pbd.h_log[n + 1].k \in {"vertex", "triangle"}

\* A smoothing call tessellated a first path point without growth and grew
\* the buffers at the start of a later one.
GrowthOrderingWitness ==
    /\ Cardinality(Events("point")) >= 2
    /\ \E n \in Events("expand") :
          /\ \E m \in Events("vertex") : m < n
          /\ \E m \in Events("vertex") : m > n

---------------------------------------------------------------------------
(* C16 *)

\* The least effective value of each option.
OptionMinimum == [smoothingDistance |-> 5, debounce |-> 1, roundness |-> 4, radius |-> 1]

\* The value the field f of the options pre is to be taken as: the number
\* given, or the default when the field is left out or is no number.
OptionTaken(f) ==
    IF f \in DOMAIN pre /\ pre[f].type = "number" THEN pre[f].n
    ELSE DefaultOptions[f].n

\* C16: a tessellator created with a field of the options missing,
\* undefined or not a number uses the default of the field; every field is
\* then raised to its minimum (smoothingDistance 5, roundness 4, radius 1,
\* debounce 1), and a value at or above the minimum is kept.
OptionHandling ==
    outcome = "constructed" =>
        \A f \in DOMAIN DefaultOptions :
            pbd[f] = Number(Max(OptionMinimum[f], OptionTaken(f)))

\* new PathBufferData({debounce: undefined}): the effective debounce is NaN,
\* not the default 1.
OptionUndefinedGivesNaN ==
    /\ outcome = "constructed"
    /\ DOMAIN pre = {"debounce"}
    /\ pre.debounce = Undefined
    /\ pbd.debounce = NaN
    /\ pbd.roundness = Number(16)

\* OptionHandling for the options whose fields are each left out or given
\* as a number.
OptionHandlingOfNumbers ==
    (\A f \in DOMAIN pre : pre[f].type = "number") => OptionHandling

---------------------------------------------------------------------------
(* C17 *)

\* The state of the tessellator, which _addPoint reads from the vertex
\* cursor: 0 before the first path point, 1 after the start cap, 2 once a
\* segment exists.
TessellatorState(t) ==
    IF t.nextVertexIndex = 0 THEN 0 ELSE IF t.nextVertexIndex = 1 THEN 1 ELSE 2

\* C17: the first path point is handled by the start-cap step, the second
\* by the first-segment step and every later one by the joined-segment
\* step; the state never goes back, and a filtered sample leaves it as it
\* was.
StateMachine ==
    /\ Len(pbd.h_steps) = Len(pbd.h_path)
    /\ \A i \in 1 .. Len(pbd.h_steps) :
          pbd.h_steps[i] = IF i = 1 THEN "startPath"
                           ELSE IF i = 2 THEN "firstSegment"
                           ELSE "addSegment"
    /\ TessellatorState(pbd) = Min(Len(pbd.h_path), 2)
    /\ TessellatorState(pbd) >= TessellatorState(pre)
    /\ outcome \in {"same", "debounced", "near"} =>
          TessellatorState(pbd) = TessellatorState(pre)

\* The second sample repeated the first and was filtered after the start
\* cap; the third sample gave the first segment and the fourth, in one
\* smoothing call, two joined segments.
StateMachineWitness ==
    /\ Len(samples) = 4
    /\ samples[2] = samples[1]
    /\ Len(pbd.h_steps) = 4
    /\ Cardinality(Events("point")) = 2
    /\ TessellatorState(pre) = 2

---------------------------------------------------------------------------
(* C18 *)

\* The last call passed the duplicate test, the debounce counter and the
\* minimum-step test of the code.
Accepted == outcome \in {"midPoint", "smooth"}

\* The number of raw points the list held when the last call began.
RawPointsBefore == Len(pre.points) \div 2

\* The last call tessellated one path point, the mid point between the last
\* raw point and the sample (to the rounding of the halving).
OnlyMidPointTessellated ==
    /\ Cardinality(Events("point")) = 1
    /\ Len(pbd.h_path) = Len(pre.h_path) + 1
    /\ LET m == pbd.h_path[Len(pbd.h_path)]
           p == LastRawPoint(pre)
       IN  /\ Abs(2 * (m.x - p.x) - (LastSample.x - p.x)) <= 1
           /\ Abs(2 * (m.y - p.y) - (LastSample.y - p.y)) <= 1

\* C18, as the specification states it: an accepted sample that finds fewer
\* than 3 raw points in the list is tessellated as one path point, the mid
\* point between the last raw point and the sample, however far it is.
MidPointFallbackBelowThree ==
    (Accepted /\ RawPointsBefore < 3) => OnlyMidPointTessellated

\* C18, as the code has it: an accepted sample that finds one raw point in
\* the list is tessellated as one path point, the mid point, however far it
\* is; from two raw points on the sample is smoothed.
MidPointFallback ==
    /\ (Accepted /\ RawPointsBefore < 2) => outcome = "midPoint" /\ OnlyMidPointTessellated
    /\ (Accepted /\ RawPointsBefore >= 2) => outcome = "smooth"

\* With smoothingDistance 5 the second sample, 16 away from the first, was
\* tessellated as the mid point alone.
MidPointFallbackWitness ==
    /\ pbd.smoothingDistance = 5 * Q
    /\ samples = <<Vec(8 * Q, 0), Vec(24 * Q, 0)>>
    /\ outcome = "midPoint"
    /\ pbd.h_path = <<Vec(8 * Q, 0), Vec(16 * Q, 0)>>

---------------------------------------------------------------------------
(* C19 *)

\* The path points the last call tessellated, in order.
PointsOfCall == SubSeq(pbd.h_path, Len(pre.h_path) + 1, Len(pbd.h_path))

\* The path points of the last call are those of a smoothing over the
\* distance D: with steps = ceil(D / smoothingDistance), the steps - 1
\* points at step/steps of the quadratic Bezier from the path point
\* tessellated last, with the last raw point as control point, to the mid
\* point M of the last raw point and the sample, and then M (none but M
\* when D is at most smoothingDistance).  Coordinates are compared to the
\* rounding of the model.
SmoothedOver(D) ==
    LET steps == IF D > pbd.smoothingDistance
                 THEN CeilDiv(D, pbd.smoothingDistance) ELSE 1
        P == pre.previousPoint
        C == LastRawPoint(pre)
        M == PointsOfCall[Len(PointsOfCall)]
        B(k, p, c, m) == (steps - k) * (steps - k) * p + 2 * k * (steps - k) * c + k * k * m
    IN  /\ Len(PointsOfCall) = steps
        /\ Cardinality(Events("point")) = steps
        /\ Abs(2 * (M.x - C.x) - (LastSample.x - C.x)) <= 1
        /\ Abs(2 * (M.y - C.y) - (LastSample.y - C.y)) <= 1
        /\ \A k \in 1 .. steps - 1 :
              /\ 2 * Abs(steps * steps * PointsOfCall[k].x - B(k, P.x, C.x, M.x))
                    <= steps * steps
              /\ 2 * Abs(steps * steps * PointsOfCall[k].y - B(k, P.y, C.y, M.y))
                    <= steps * steps

\* C19, as the specification states it: the smoothing of an accepted sample
\* counts its steps on the distance D from the path point tessellated last
\* to the sample.
SmoothingCountFromPathPoint ==
    outcome = "smooth" =>
        SmoothedOver(Length(Subtract(LastSample, pre.previousPoint)))

\* C19, as the code has it: the smoothing of an accepted sample counts its
\* steps on the distance D from the last raw point to the sample.
SmoothingCount ==
    outcome = "smooth" =>
        SmoothedOver(Length(Subtract(LastSample, LastRawPoint(pre))))

\* A smoothing call tessellated three Bezier points and the mid point,
\* four steps for the distance from the last raw point, where the distance
\* from the path point tessellated last gives another count.
SmoothingCountWitness ==
    /\ outcome = "smooth"
    /\ Len(PointsOfCall) = 4
    /\ CeilDiv(Length(Subtract(LastSample, LastRawPoint(pre))), pbd.smoothingDistance) = 4
    /\ CeilDiv(Length(Subtract(LastSample, pre.previousPoint)), pbd.smoothingDistance) # 4

---------------------------------------------------------------------------
(* C20 *)

\* The raw point list of pre with the sample of the last call appended.
RawPointsAppended == pre.points \o <<LastSample.x, LastSample.y>>

\* C20, as the specification states it: every call appends its sample to
\* the raw point list, whatever the outcome; the list grows by exactly one
\* point per call.
RawHistoryOfEveryCall ==
    Len(samples) >= 1 =>
        /\ pbd.points = RawPointsAppended
        /\ Len(pbd.points) = 2 * Len(samples)

\* C20, as the code has it: a call appends its sample to the raw point
\* list when the sample is tessellated, is a duplicate or is rejected by the
\* minimum-step test; a call rejected by the debounce counter leaves the
\* list as it was.  The list is append-only.
RawHistory ==
    Len(samples) >= 1 =>
        /\ outcome = "debounced" => pbd.points = pre.points
        /\ outcome # "debounced" => pbd.points = RawPointsAppended
        /\ Len(pbd.points) <= 2 * Len(samples)

\* With debounce 2, four calls left two raw points in the list: the second
\* and the fourth sample were rejected by the debounce counter.
RawHistoryWitness ==
    /\ pbd.debounce = 2
    /\ Len(samples) = 4
    /\ outcome = "debounced"
    /\ Len(pbd.points) = 4
    /\ Len(pbd.h_path) = 2

---------------------------------------------------------------------------
(* C21 *)

\* C21: every path point handed to the tessellator differs from the path
\* point tessellated before it, so that no segment of zero length (zero
\* travel direction, zero thickness offset) is tessellated, for any
\* sequence of raw samples.
NoDegenerateSegments ==
    \A i \in 2 .. Len(pbd.h_path) : pbd.h_path[i] # pbd.h_path[i - 1]

\* The samples (8,0), (24,0), (8,0): the second leaves the path at the mid
\* point (16,0); the third passes the duplicate and the minimum-step test
\* (it is 8 away from (16,0)), and the mid point between it and the last raw
\* point (24,0) is (16,0) again.  The segment has length 0: the travel
\* direction and the thickness offset are zero and the four corners of its
\* quad are the path point itself.
DegenerateSegmentTessellated ==
    /\ samples = <<Vec(8 * Q, 0), Vec(24 * Q, 0), Vec(8 * Q, 0)>>
    /\ outcome = "smooth"
    /\ pbd.h_path = <<Vec(8 * Q, 0), Vec(16 * Q, 0), Vec(16 * Q, 0)>>
    /\ TotalLength(pbd) = TotalLength(pre)
    /\ pbd.translation = Zero
    /\ pbd.thicknessDirectionScaled = Zero
    /\ pbd.p1 = pbd.p3
    /\ pbd.h_steps[3] = "addSegment"

---------------------------------------------------------------------------
(* C22 *)

\* The position in the log of the last call at which the end cap begins
\* that follows the joint begun at position n.
CapAfter(n) == Least({ m \in Events("endCap") : m > n })

\* The positions in the log of the vertices and of the triangles written by
\* the joint begun at position n.
JointVertices(n) == { m \in Events("vertex") : n < m /\ m < CapAfter(n) }

JointTriangles(n) == { m \in Events("triangle") : n < m /\ m < CapAfter(n) }

\* The joint begun at position n ended through its terminating step: k
\* contour vertices, each followed by its triangle, then one more triangle
\* around the previous center, which reuses the previous segment's p3 (turn
\* > 0) or the new segment's p1 (turn < 0); k is at most roundness / 2.
FanClosed(n) ==
    LET j == pbd.h_log[n]
        k == Cardinality(JointVertices(n))
        last == CapAfter(n) - 1
    IN  /\ Cardinality(JointTriangles(n)) = k + 1
        /\ \A m \in JointVertices(n) : pbd.h_log[m + 1].k = "triangle"
        /\ pbd.h_log[last].k = "triangle"
        /\ pbd.h_log[last].a = j.i
        /\ pbd.h_log[last].b = IF j.turn > 0 THEN j.previous_p3Index ELSE j.p1Index
        /\ pbd.h_log[last].c < j.p1Index + 4 + k
        /\ 2 * k <= pbd.roundness

\* C22: for every roundness and every turning joint (turn # 0) the joint
\* fan ends through its terminating step: k >= 0 new contour vertices and
\* k + 1 triangles around the previous center, the last one reusing a vertex
\* written before (the previous segment's p3 when turn > 0, the new
\* segment's p1 when turn < 0), and k <= roundness / 2.
JointFanClosure ==
    \A n \in Events("joint") : pbd.h_log[n].turn # 0 => FanClosed(n)

\* With roundness 45 a joint that turns by more than 176 degrees ran its
\* loop to the end without the terminating step: 44 contour vertices, 44
\* triangles, the last write of the joint a triangle that follows a vertex.
JointFanLeftOpen ==
    /\ pbd.roundness = 45
    /\ \E n \in Events("joint") :
          /\ pbd.h_log[n].turn # 0
          /\ pbd.h_log[n].align < CosTable[45][23]
          /\ Cardinality(JointVertices(n)) = 44
          /\ Cardinality(JointTriangles(n)) = 44
          /\ pbd.h_log[CapAfter(n) - 2].k = "vertex"

\* JointFanClosure for the joints whose align is reached by the cosine of
\* a slice of the loop.  An align below every such cosine leaves the fan
\* open: the turn back by more than pi - pi/roundness of an odd roundness,
\* and the exact reversal whose align rounds below -1 while rounding leaves
\* its turn away from 0, for any roundness.
JointFanClosureWithinReach ==
    \A n \in Events("joint") :
        (/\ pbd.h_log[n].turn # 0
         /\ \E i \in 1 .. pbd.roundness - 1 : Cos(pbd, i) <= pbd.h_log[n].align)
            => FanClosed(n)

---------------------------------------------------------------------------
(* C23 *)

\* The joint begun at position n wrote nothing, and the path point it
\* belongs to moved the vertex cursor by 5 (the four corners of the quad and
\* the center of the end cap) and the triangle cursor by 2 (the quad): the
\* end cap begins right after the quad.
NothingJoined(n) ==
    /\ JointVertices(n) = {}
    /\ JointTriangles(n) = {}
    /\ CapAfter(n) = n + 1
    /\ pbd.h_log[n + 1].i + 1 = pbd.h_log[n].p1Index + 5
    /\ pbd.h_log[n - 1].k = "triangle"
    /\ pbd.h_log[n + 4].k = "triangle"
    /\ pbd.h_log[n + 4].i = pbd.h_log[n - 1].i + 1
    /\ pbd.h_log[n - 1].i = pbd.h_log[n - 2].i + 1

\* The fan of the joint begun at position n is a half circle around the
\* previous center (the path point before the one being tessellated): its
\* ceil(roundness / 2) triangles all have the previous center as first
\* vertex, the first one starts at p4, each one starts where the one before
\* ended, the last one ends on p1, and the contour vertices between lie at
\* the radius from the previous center.
HalfCircleJoined(n, center) ==
    LET j == pbd.h_log[n]
        k == Cardinality(JointVertices(n))
        last == CapAfter(n) - 1
    IN  /\ k = CeilDiv(pbd.roundness, 2) - 1
        /\ Cardinality(JointTriangles(n)) = k + 1
        /\ \A m \in JointTriangles(n) : pbd.h_log[m].a = j.i
        /\ \A m \in JointVertices(n) :
              /\ pbd.h_log[m + 1].k = "triangle"
              /\ pbd.h_log[m + 1].b = pbd.h_log[m].i
              /\ pbd.h_log[m + 1].c = IF m = n + 1 THEN j.p4Index ELSE pbd.h_log[m].i - 1
              /\ Abs(Length(Subtract(Vec(pbd.h_log[m].x, pbd.h_log[m].y), center))
                         - pbd.radius) <= 2
        /\ pbd.h_log[last].k = "triangle"
        /\ pbd.h_log[last].b = j.p1Index
        /\ pbd.h_log[last].c = j.p1Index + 3 + k

\* The number of path points tessellated in the log of the last call up to
\* position n.
PointsUpTo(n) == Cardinality({ m \in Events("point") : m <= n })

\* The path point before the one whose joint begins at position n.
PreviousCenter(n) == pbd.h_path[Len(pre.h_path) + PointsUpTo(n) - 1]

\* C23: a joint with turn = 0 and align >= 0 (straight continuation) writes
\* no vertex and no triangle, so that its path point adds 5 permanent
\* vertices and 2 permanent triangles; a joint with turn = 0 and align < 0
\* (reversal) writes a half-circle fan around the previous center that
\* starts at the new quad's p4 and closes on the new quad's p1.
CollinearJoints ==
    \A n \in Events("joint") :
        pbd.h_log[n].turn = 0 =>
            IF pbd.h_log[n].align >= 0 THEN NothingJoined(n)
            ELSE HalfCircleJoined(n, PreviousCenter(n))

\* One smoothing call went straight on and then came straight back: its
\* first joint wrote nothing, its second joint a half circle of 8 triangles
\* (roundness 16).
CollinearJointsWitness ==
    /\ pbd.roundness = 16
    /\ \E n \in Events("joint") :
          /\ pbd.h_log[n].turn = 0
          /\ pbd.h_log[n].align >= 0
          /\ pbd.h_path[Len(pre.h_path) + PointsUpTo(n)] # PreviousCenter(n)
    /\ \E n \in Events("joint") :
          /\ pbd.h_log[n].turn = 0
          /\ pbd.h_log[n].align < 0
          /\ Cardinality(JointTriangles(n)) = 8

---------------------------------------------------------------------------
(* C24 *)

\* The position in the log of the last call at which the end cap begun at
\* position n ends: the next path point, or the end of the log.
EndOfCap(n) ==
    IF \E m \in Events("point") : m > n
    THEN Least({ m \in Events("point") : m > n })
    ELSE Len(pbd.h_log) + 1

\* The events of the log between the positions lo and hi are those of a
\* half-circle fan that stopped at the first slice at or beyond pi:
\* ceil(roundness / 2) triangles, ceil(roundness / 2) - 1 contour vertices,
\* and a last triangle that closes on the quad corner.
HalfCircle(lo, hi, corner) ==
    /\ Cardinality({ m \in Events("triangle") : lo < m /\ m < hi })
          = CeilDiv(pbd.roundness, 2)
    /\ Cardinality({ m \in Events("vertex") : lo < m /\ m < hi })
          = CeilDiv(pbd.roundness, 2) - 1
    /\ pbd.h_log[hi - 1].k = "triangle"
    /\ pbd.h_log[hi - 1].b = corner

\* C24: every half-circle fan (the start half-cap of the first segment, the
\* end cap of every segment, the reversal joint) stops at the first slice
\* whose angle is at least pi and has, for every roundness,
\* ceil(roundness / 2) triangles on ceil(roundness / 2) - 1 new contour
\* vertices, the closing triangle reusing a quad corner.
HalfCircleFans ==
    /\ \A n \in Events("startCap") :
          HalfCircle(n, CapAfter(n), pbd.h_log[n].p1Index)
    /\ \A n \in Events("endCap") :
          HalfCircle(n + 1, EndOfCap(n), pbd.h_log[n].p3Index)
    /\ \A n \in Events("joint") :
          (pbd.h_log[n].turn = 0 /\ pbd.h_log[n].align < 0) =>
              HalfCircle(n, CapAfter(n), pbd.h_log[n].p1Index)

\* With roundness 150 the end cap of a segment has 76 triangles on 75 new
\* contour vertices: slice 75, whose angle is below Math.PI, was not the
\* last, and its contour vertex lies on the quad corner p3 that the closing
\* triangle then reuses.
HalfCircleWithExtraSlice ==
    /\ pbd.roundness = 150
    /\ \E n \in Events("endCap") :
          LET hi == EndOfCap(n)
          IN  /\ Cardinality({ m \in Events("triangle") : n + 1 < m /\ m < hi }) = 76
              /\ Cardinality({ m \in Events("vertex") : n + 1 < m /\ m < hi }) = 75
              /\ pbd.h_log[hi - 3].k = "vertex"
              /\ Abs(pbd.h_log[hi - 3].x - pbd.p3.x) <= 1
              /\ Abs(pbd.h_log[hi - 3].y - pbd.p3.y) <= 1
              /\ hi = Len(pbd.h_log) + 1

\* HalfCircleFans for the roundness values whose slice angles reach pi at
\* slice ceil(roundness / 2).
HalfCircleFansWithoutDrift ==
    HalfTurnSlice[pbd.roundness] = CeilDiv(pbd.roundness, 2) => HalfCircleFans

---------------------------------------------------------------------------
(* C25 *)

\* The position in the log of the last call of the path point whose events
\* include position m: the last "point" event at or before m.
PointOf(m) == Greatest({ n \in Events("point") : n <= m })

\* The length of the path before the path point begun at position n of the
\* log, and after it: the path point is number pbd.h_log[n].i, counted
\* from 0.
LengthBefore(n) == PathLength(SubSeq(pbd.h_path, 1, pbd.h_log[n].i))

LengthAfter(n) == PathLength(SubSeq(pbd.h_path, 1, pbd.h_log[n].i + 1))

\* The position in the log of p1 of the quad of the path point begun at
\* position n: the first vertex written after it.
QuadOf(n) == Least({ m \in Events("vertex") : m > n })

\* The vertex written at position m of the log belongs to the station at
\* the end of its segment: it is p2 or p3 of the quad, or it is written
\* after the end cap began (the new center and the end-cap contour).  The
\* other vertices of a segment (p1, p4, the start half-cap contour and the
\* joint contour) belong to the station at its start.
AtEndOfSegment(m) ==
    \/ m \in { QuadOf(PointOf(m)) + 1, QuadOf(PointOf(m)) + 2 }
    \/ \E c \in Events("endCap") : PointOf(m) < c /\ c < m

\* The vertex written at position m of the log is still the last one
\* written at its index when the call ends, and the index is in the buffer.
LastWrite(m) ==
    /\ pbd.h_log[m].i < pbd.maxVerticesCount
    /\ \A o \in Events("vertex") : o > m => pbd.h_log[o].i # pbd.h_log[m].i

\* C25: every vertex carries the length of the path at its station: 0 for
\* the center and the contour of the start cap; for a segment, the length
\* before it for p1, p4, the start half-cap contour and the joint contour,
\* and the length after it for p2, p3, the new center and the end-cap
\* contour.  The distances one path point writes are the length before and
\* the length after that path point and no other value, and the buffer
\* holds them.
DistanceAttribute ==
    \A m \in Events("vertex") :
        /\ pbd.h_log[m].dist =
              IF pbd.h_log[PointOf(m)].i = 0 THEN 0
              ELSE IF AtEndOfSegment(m) THEN LengthAfter(PointOf(m))
              ELSE LengthBefore(PointOf(m))
        /\ pbd.h_log[m].dist \in { LengthBefore(PointOf(m)), LengthAfter(PointOf(m)) }
        /\ LastWrite(m) => pbd.distances[pbd.h_log[m].i] = pbd.h_log[m].dist

\* A call tessellated two joined segments of different lengths over a path
\* that had a length already; the second joint turned and wrote contour
\* vertices, which carry the length before their segment.
DistanceAttributeWitness ==
    /\ Cardinality(Events("point")) = 2
    /\ TotalLength(pre) > 0
    /\ \E n \in Events("joint") :
          /\ JointVertices(n) # {}
          /\ LengthBefore(PointOf(n)) > TotalLength(pre)
          /\ LengthAfter(PointOf(n)) > LengthBefore(PointOf(n))
          /\ \A m \in JointVertices(n) : pbd.h_log[m].dist = LengthBefore(PointOf(n))

---------------------------------------------------------------------------
(* C26 *)

\* The position of vertex i of the buffers.
PositionOf(i) == Vec(pbd.positions[3 * i], pbd.positions[3 * i + 1])

\* Twice the signed area of the triangle on the positions a, b, c.
SignedArea(a, b, c) ==
    (b.x - a.x) * (c.y - a.y) - (c.x - a.x) * (b.y - a.y)

\* The sign of the area of triangle k of the indices buffer, its vertices
\* taken in stored order.
Winding(k) ==
    LET area == SignedArea(PositionOf(pbd.indices[3 * k]),
                           PositionOf(pbd.indices[3 * k + 1]),
                           PositionOf(pbd.indices[3 * k + 2]))
    IN  IF area > 0 THEN 1 ELSE IF area < 0 THEN -1 ELSE 0

\* The triangles of indices[0 .. indicesCount).
LiveTriangles == 0 .. (pbd.indicesCount \div 3) - 1

\* The path points lie on one line and every one of them is further along
\* it than the one before.
StraightStroke ==
    \A i \in 2 .. Len(pbd.h_path) :
        /\ SignedArea(pbd.h_path[1], pbd.h_path[2], pbd.h_path[i]) = 0
        /\ (pbd.h_path[i].x - pbd.h_path[i - 1].x) * (pbd.h_path[2].x - pbd.h_path[1].x)
             + (pbd.h_path[i].y - pbd.h_path[i - 1].y) * (pbd.h_path[2].y - pbd.h_path[1].y) > 0

\* C26: after every call of a straight stroke, the triangles of
\* indices[0 .. indicesCount) all have a signed area of one sign, their
\* vertices taken in stored order.
WindingConsistency ==
    (Len(pbd.h_path) >= 1 /\ StraightStroke) =>
        \E sign \in {-1, 1} : \A k \in LiveTriangles : Winding(k) = sign

\* After a call of a straight stroke of roundness 150, the closing triangle
\* of the live end cap has no area: the last contour vertex of the cap,
\* written by the slice that HalfCircleFans has no place for, lies on the
\* corner of the quad that closes the fan.  The other triangles are of one
\* sign.
DegenerateClosingTriangle ==
    /\ pbd.roundness = 150
    /\ Len(pbd.h_path) >= 2
    /\ StraightStroke
    /\ Winding((pbd.indicesCount \div 3) - 1) = 0
    /\ PositionOf(pbd.indices[pbd.indicesCount - 1]) = PositionOf(pbd.indices[pbd.indicesCount - 2])
    /\ \E sign \in {-1, 1} :
          \A k \in LiveTriangles : Winding(k) # 0 => Winding(k) = sign

\* WindingConsistency for the strokes whose half circles take
\* ceil(roundness/2) slices.
WindingConsistencyWithoutDrift ==
    2 * HalfTurnSlice[pbd.roundness] <= pbd.roundness + 1 => WindingConsistency

\* A straight stroke of three segments or more, the last of them joined to
\* the one before with nothing written for the joint.
StraightStrokeJoined ==
    /\ Len(pbd.h_path) >= 4
    /\ StraightStroke
    /\ Events("joint") # {}
    /\ \A n \in Events("joint") : NothingJoined(n)
    /\ Cardinality(LiveTriangles) > 6
    /\ \E sign \in {-1, 1} : \A k \in LiveTriangles : Winding(k) = sign

---------------------------------------------------------------------------
(* C27 *)

\* The length of the indices buffer in force when position m of the log
\* was written: the buffer the call found, the buffer it left, or, between
\* two growths of one call, the buffer of the capacity then in force.
IndicesLengthAt(m) ==
    IF \A n \in Events("expand") : n > m THEN ArrayLength(pre.indices)
    ELSE IF \A n \in Events("expand") : n < m THEN ArrayLength(pbd.indices)
    ELSE 6 * CapacityAt(m)

\* C27: the indices buffer holds six indices for a vertex of the capacity,
\* and every triangle a call wrote, the triangles of the end cap that the
\* next call overwrites included, lies within the indices buffer in force
\* when it was written, although the growth is decided on the vertex cursor
\* alone.
IndexBufferSafety ==
    /\ ArrayLength(pbd.indices) = 6 * pbd.maxVerticesCount
    /\ \A m \in Events("triangle") :
          /\ IndicesLengthAt(m) = 6 * CapacityAt(m)
          /\ 3 * pbd.h_log[m].i + 2 < IndicesLengthAt(m)

\* The first call of a path of roundness 150 found buffers of 32 vertices,
\* grew them once, to 64 vertices and 384 indices, and wrote the 150
\* triangles of the start cap: the triangles from 128 on lie beyond the
\* indices buffer, and indicesCount is beyond its length.
TriangleWrittenBeyondIndices ==
    /\ Len(samples) = 1
    /\ pbd.roundness = 150
    /\ Cardinality(Events("expand")) = 1
    /\ pbd.maxVerticesCount = 2 * WideStartSize
    /\ ArrayLength(pbd.indices) = 6 * pbd.maxVerticesCount
    /\ Cardinality(Events("triangle")) = 150
    /\ \E m \in Events("triangle") : 3 * pbd.h_log[m].i >= ArrayLength(pbd.indices)
    /\ pbd.indicesCount > ArrayLength(pbd.indices)

\* IndexBufferSafety for the calls that wrote no vertex beyond twice the
\* capacity in force.
IndexBufferSafetyWithinReach ==
    (\A m \in Events("vertex") : pbd.h_log[m].i < 2 * CapacityAt(m)) => IndexBufferSafety

\* A call wrote vertices above the vertex capacity, and the triangles on
\* those vertices within the indices buffer.
TrianglesOfUnstoredVerticesStored ==
    /\ \E m \in Events("vertex") : pbd.h_log[m].i >= CapacityAt(m)
    /\ \E m \in Events("triangle") :
          /\ pbd.h_log[m].b >= CapacityAt(m)
          /\ pbd.h_log[m].i >= pre.nextTriangleIndex + 2
          /\ 3 * pbd.h_log[m].i + 2 < ArrayLength(pbd.indices)

---------------------------------------------------------------------------
(* C28 *)

\* The position in the log of the last call of the last triangle written to
\* slot k of the indices buffer; slot k was written by the call.
WrittenSlot(k) == \E m \in Events("triangle") : pbd.h_log[m].i = k

LastWriteOfSlot(k) == Greatest({ m \in Events("triangle") : pbd.h_log[m].i = k })

\* The triangle written at position m of the log belongs to the end cap of
\* its path point.
InEndCap(m) == \E c \in Events("endCap") : c < m /\ PointOf(c) = PointOf(m)

\* The position in the log of the beginning of the end cap of the latest
\* path point.
LastCap == Greatest(Events("endCap"))

\* The triangles of the end cap of the latest path point, as positions in
\* the log.
LastCapTriangles == { m \in Events("triangle") : m > LastCap }

\* Slot k of the indices buffer holds the triangle written at position m.
Holds(k, m) ==
    /\ pbd.indices[3 * k] = pbd.h_log[m].a
    /\ pbd.indices[3 * k + 1] = pbd.h_log[m].b
    /\ pbd.indices[3 * k + 2] = pbd.h_log[m].c

\* C28: after every call that tessellated a segment, the triangles from
\* nextTriangleIndex up to indicesCount are the end-cap fan of the latest
\* path point, and no other cap has a triangle among the triangles below
\* indicesCount: the call left the triangles below the cursor it found as
\* they were, and wrote every triangle from there on, the last write being
\* a quad, a start half-cap or a joint below the new cursor and the latest
\* end cap from the new cursor on.  The call before left nothing but its
\* end cap from its cursor on, so the call has written over the whole of it,
\* and over the whole full circle of the first path point.
SingleLiveEndCap ==
    Events("endCap") # {} =>
        /\ 3 * pbd.nextTriangleIndex < pbd.indicesCount
        /\ { pbd.h_log[m].i : m \in LastCapTriangles }
              = pbd.nextTriangleIndex .. (pbd.indicesCount \div 3) - 1
        /\ \A m \in LastCapTriangles : pbd.h_log[m].a = pbd.h_log[LastCap].i
        /\ pbd.nextVertexIndex = pbd.h_log[LastCap].i + 1
        /\ \A j \in 0 .. 3 * pre.nextTriangleIndex - 1 : pbd.indices[j] = pre.indices[j]
        /\ \A k \in pre.nextTriangleIndex .. (pbd.indicesCount \div 3) - 1 :
              /\ WrittenSlot(k)
              /\ Holds(k, LastWriteOfSlot(k))
              /\ pbd.h_log[PointOf(LastWriteOfSlot(k))].i # 0
              /\ InEndCap(LastWriteOfSlot(k)) <=> k >= pbd.nextTriangleIndex
              /\ InEndCap(LastWriteOfSlot(k)) => LastWriteOfSlot(k) > LastCap
        /\ pre.indicesCount <= pbd.indicesCount

\* A call found the end cap of an earlier segment and tessellated two
\* segments: the first of them wrote over the cap it found, the second over
\* the cap of the first.
SingleLiveEndCapWitness ==
    /\ Len(pre.h_path) >= 2
    /\ 3 * pre.nextTriangleIndex < pre.indicesCount
    /\ Cardinality(Events("endCap")) = 2
    /\ \E m \in Events("triangle") :
          /\ InEndCap(m)
          /\ m < LastCap
          /\ LastWriteOfSlot(pbd.h_log[m].i) > m
    /\ Cardinality(LastCapTriangles) = HalfTurnSlice[pbd.roundness]

---------------------------------------------------------------------------
(* C29 *)

\* The vertices and the indices below the cursors of pbd that the buffers
\* of pbd hold.
PrefixVertices == 0 .. Min(pbd.nextVertexIndex, pbd.maxVerticesCount) - 1

PrefixIndices == 0 .. Min(3 * pbd.nextTriangleIndex, ArrayLength(pbd.indices)) - 1

\* One call, from the object it finds to the object it leaves: the cursors
\* do not go back, the call writes at and above the cursors it finds, every
\* growth of the call hands the vertices and the indices below those cursors
\* over to the new buffers, and the buffers the call leaves hold them as
\* the call found them.
PrefixKept ==
    /\ pbd'.nextVertexIndex >= pbd.nextVertexIndex
    /\ pbd'.nextTriangleIndex >= pbd.nextTriangleIndex
    /\ \A n \in 1 .. Len(pbd'.h_log) :
          /\ pbd'.h_log[n].k = "vertex" => pbd'.h_log[n].i >= pbd.nextVertexIndex
          /\ pbd'.h_log[n].k = "triangle" => pbd'.h_log[n].i >= pbd.nextTriangleIndex
    /\ \A g \in 1 .. Len(pbd'.h_grown) :
          /\ \A i \in PrefixVertices :
                /\ pbd'.h_grown[g].new.positions[3 * i] = pbd.positions[3 * i]
                /\ pbd'.h_grown[g].new.positions[3 * i + 1] = pbd.positions[3 * i + 1]
                /\ pbd'.h_grown[g].new.positions[3 * i + 2] = pbd.positions[3 * i + 2]
                /\ pbd'.h_grown[g].new.distances[i] = pbd.distances[i]
          /\ \A j \in PrefixIndices : pbd'.h_grown[g].new.indices[j] = pbd.indices[j]
    /\ \A i \in PrefixVertices : VertexData(pbd', i) = VertexData(pbd, i)
    /\ \A j \in PrefixIndices : pbd'.indices[j] = pbd.indices[j]

\* C29: the vertices below nextVertexIndex and the triangles below
\* nextTriangleIndex at the end of a call are modified by no later call and
\* by no growth of the buffers; a later call writes at and above those
\* cursors only.  The cursors never go back, so what holds from one call to
\* the next holds for every later call.
PersistentPrefix == [][PrefixKept]_vars

\* A call found vertices and triangles below its cursors, grew the buffers,
\* tessellated two path points from the cursors it found upwards, and left
\* both cursors further on.
PersistentPrefixWitness ==
    /\ pre.nextTriangleIndex >= 2
    /\ pre.nextVertexIndex >= 6
    /\ Len(pbd.h_grown) >= 1
    /\ Cardinality(Events("point")) >= 2
    /\ \E n \in Events("vertex") : pbd.h_log[n].i = pre.nextVertexIndex
    /\ \E n \in Events("triangle") : pbd.h_log[n].i = pre.nextTriangleIndex
    /\ pbd.nextVertexIndex > pre.nextVertexIndex
    /\ pbd.nextTriangleIndex > pre.nextTriangleIndex
    /\ \E j \in 0 .. 3 * pre.nextTriangleIndex - 1 : pbd.indices[j] # 0

---------------------------------------------------------------------------
(* C30 *)
(* A PathMesh fed with raw samples and rendered in between. *)

\* The options a mesh may be created with: with the first, a third path
\* point can overrun the headroom and a fourth grows the buffers; with the
\* second, a call smooths over several path points.
MeshPresets ==
    { [radius |-> Number(5), roundness |-> Number(45),
       smoothingDistance |-> Number(40)],
      [roundness |-> Number(16), smoothingDistance |-> Number(5)] }

\* new PathMesh(name, scene, startPointX, startPointY, options)
MeshInit ==
    /\ \E o \in MeshPresets : \E s \in SamplePool :
          /\ pre = Constructor(o)
          /\ pbd = AddPointToPath(Constructor(o), s[1] * Q, s[2] * Q)
          /\ samples = <<Vec(s[1] * Q, s[2] * Q)>>
    /\ outcome = "first"
    /\ mesh = [PathMeshConstructor(pbd) EXCEPT !.h_vertices = StoredVertices,
                                              !.h_triangles = StoredTriangles]
    /\ canvas = NoCanvas

\* History: the call of addPointToPath stored the vertices and the
\* triangles of the given indices.
NotedCall(m, vertices, triangles) ==
    [m EXCEPT !.h_after = "addPointToPath",
              !.h_vertices = @ \cup vertices,
              !.h_triangles = @ \cup triangles,
              !.h_dirtyVertices = @ \cup vertices,
              !.h_dirtyTriangles = @ \cup triangles]

\* One PathMesh.addPointToPath(x, y) call.
MeshAddPointToPath ==
    /\ Len(samples) < MaxCalls
    /\ \E s \in SamplePool :
          /\ pbd' = AddPointToPath(pbd, s[1] * Q, s[2] * Q)
          /\ pre' = pbd
          /\ samples' = Append(samples, Vec(s[1] * Q, s[2] * Q))
          /\ outcome' = Branch(pbd, s[1] * Q, s[2] * Q)
    /\ mesh' = NotedCall(Accumulate(mesh, pbd'.currentChanges),
                         StoredVertices', StoredTriangles')
    /\ UNCHANGED canvas

\* What _updateGeometry does with the buffers of the GPU: it hands them
\* over whole, copies no element, copies the changed elements, is refused
\* a copy by the GPU, or is left by an exception.
UploadOf(m, t, webGLVersion) ==
    IF m.currentPositionsBufferLength # ArrayLength(t.positions) THEN "whole"
    ELSE IF m.currentChanges = UnsetChanges THEN "none"
    ELSE IF ~(IndicesViewThrows(m, t) \/ PositionsViewThrows(m, t)
                \/ DistancesViewThrows(m, t)) THEN "parts"
    ELSE IF webGLVersion = 1 THEN "thrown"
    ELSE "refused"

\* History: a before-render callback has run.  A callback that copies
\* nothing right after another one leaves the history as it is; h_lost is
\* set when a copy is refused or throws, until the buffers are handed over
\* whole.
NotedRender(m, upload, old) ==
    [m EXCEPT !.h_after = "render",
              !.h_upload = IF upload = "none" /\ old.h_after = "render"
                           THEN old.h_upload ELSE upload,
              !.h_lost = (upload \in {"refused", "thrown"})
                            \/ (old.h_lost /\ upload # "whole"),
              !.h_dirtyVertices = IF upload = "thrown" THEN old.h_dirtyVertices ELSE {},
              !.h_dirtyTriangles = IF upload = "thrown" THEN old.h_dirtyTriangles ELSE {}]

\* One before-render callback, on an engine of WebGL 1 or of WebGL 2.
Render ==
    /\ \E webGLVersion \in {1, 2} :
          mesh' = NotedRender(UpdateGeometry(mesh, pbd, webGLVersion),
                              UploadOf(mesh, pbd, webGLVersion), mesh)
    /\ UNCHANGED <<pbd, pre, samples, outcome, canvas>>

MeshNext == MeshAddPointToPath \/ Render

MeshSpec == MeshInit /\ [][MeshNext]_vars

\* The changes accumulated contain every offset stored since the previous
\* render.
DirtyWithinChanges ==
    /\ \A i \in mesh.h_dirtyVertices :
          /\ mesh.currentChanges.vertexPositionStart <= 3 * i
          /\ 3 * i + 2 < mesh.currentChanges.vertexPositionEnd + 3
          /\ mesh.currentChanges.vertexDistanceStart <= i
          /\ i < mesh.currentChanges.vertexDistanceEnd + 1
    /\ \A k \in mesh.h_dirtyTriangles :
          /\ mesh.currentChanges.indexStart <= 3 * k
          /\ 3 * k + 2 < mesh.currentChanges.indexEnd + 3

\* The buffers of the GPU hold what the buffers of the tessellator hold, at
\* every offset that was ever stored to.
GpuUpToDate ==
    /\ \A i \in mesh.h_vertices :
          /\ mesh.positionsBuffer[3 * i] = pbd.positions[3 * i]
          /\ mesh.positionsBuffer[3 * i + 1] = pbd.positions[3 * i + 1]
          /\ mesh.positionsBuffer[3 * i + 2] = pbd.positions[3 * i + 2]
          /\ mesh.distancesBuffer[i] = pbd.distances[i]
    /\ \A k \in mesh.h_triangles :
          /\ mesh.indicesBuffer[3 * k] = pbd.indices[3 * k]
          /\ mesh.indicesBuffer[3 * k + 1] = pbd.indices[3 * k + 1]
          /\ mesh.indicesBuffer[3 * k + 2] = pbd.indices[3 * k + 2]

\* C30: for every interleaving of addPointToPath calls and before-render
\* callbacks, the mesh accumulates a region that contains every offset
\* stored since the previous render; a render callback hands the buffers
\* over whole when the length of positions has changed and copies the
\* accumulated sub-ranges otherwise; and right after a render callback the
\* buffers of the GPU equal the buffers of the tessellator at every offset
\* ever stored to, the draw count is indicesCount and the accumulated
\* region is unset.
IncrementalUpload ==
    /\ mesh.h_after = "addPointToPath" => DirtyWithinChanges
    /\ mesh.h_after = "render" =>
          /\ mesh.h_upload \in {"whole", "none", "parts"}
          /\ GpuUpToDate
          /\ mesh.indexCount = pbd.indicesCount
          /\ mesh.currentChanges = UnsetChanges

\* After a render callback the GPU holds a vertex as it was before the
\* calls rendered: the accumulated range of positions ended beyond the
\* buffer, and the copy was refused or the view of it threw.
GpuLeftBehind ==
    /\ mesh.h_after = "render"
    /\ mesh.h_upload \in {"refused", "thrown"}
    /\ mesh.currentPositionsBufferLength = ArrayLength(pbd.positions)
    /\ \E i \in mesh.h_vertices : mesh.positionsBuffer[3 * i] # pbd.positions[3 * i]

\* IncrementalUpload for the renders whose sub-ranges lie within the
\* buffers.
IncrementalUploadWithinBuffers == mesh.h_lost \/ IncrementalUpload

\* After a render callback that copied sub-ranges accumulated over two
\* calls, the GPU is up to date.
SubRangesOfTwoCallsUploaded ==
    /\ mesh.h_after = "render"
    /\ mesh.h_upload = "parts"
    /\ ~mesh.h_lost
    /\ Len(samples) >= 3
    /\ Tessellated
    /\ pre.currentChanges # UnsetChanges
    /\ mesh.indexCount > pre.indicesCount
    /\ GpuUpToDate

---------------------------------------------------------------------------
(* InkCanvas (src/unnamed/part_005): the canvas that creates a PathMesh    *)
(* per stroke and keeps the lists of undo and redo.  The canvas is a       *)
(* record c with the source's field names.  A path is named by its number  *)
(* in the order of creation; c.objects[path] holds its PathBufferData, its *)
(* PathMesh and whether it has been disposed.  c.scene holds what the      *)
(* canvas and its paths change of the scene: the meshes it shows and the   *)
(* observers of onBeforeRenderObservable, each named by its path.  The     *)
(* canvas is created with debug = false, the default.  The brush mode, the *)
(* color, the materials, the particle system and the camera are left out:  *)
(* no path, list or observer depends on them.                              *)

\* The number of paths one canvas creates.
MaxPaths == 2

\* The number of extendPath calls that reach one path.
MaxExtends == 1

\* null, the _currentPath of a canvas outside a stroke.
NoPath == 0

\* The brush sizes changeSize is called with.
SizePool == {2, 5}

\* Where the pointer may be when an event arrives, in whole units.
PointerPool == { <<8, 0>>, <<40, 0>> }

\* InkCanvas.constructor
CanvasConstructor ==
    [paths |-> <<>>,
     redoPaths |-> <<>>,
     currentPath |-> NoPath,
     currentSize |-> 5,
     scene |-> [meshes |-> {}, onBeforeRenderObservable |-> {}],
     objects |-> <<>>,
     h_op |-> "constructor",
     h_cleared |-> FALSE,
     h_undone |-> FALSE,
     h_dropped |-> 0]

\* new PathMesh('path', scene, x, y, options) for the next path of the
\* canvas: the Mesh constructor adds the mesh to the scene, the PathMesh
\* constructor creates the path data with its first point, creates the
\* geometry and registers the before-render observer.
NewPathMesh(c, x, y, options) ==
    [c EXCEPT
        !.objects = Append(@,
            [pathData |-> AddPointToPath(Constructor(options), x, y),
             mesh |-> PathMeshConstructor(AddPointToPath(Constructor(options), x, y)),
             disposed |-> FALSE,
             h_extends |-> 0]),
        !.scene.meshes = @ \cup {Len(c.objects) + 1},
        !.scene.onBeforeRenderObservable = @ \cup {Len(c.objects) + 1}]

\* InkCanvas._createPath, with debug = false: the canvas with the new path
\* among its objects; the path returned is the last of them.
CreatePath(c, x, y) == NewPathMesh(c, x, y, [radius |-> Number(c.currentSize)])

\* PathMesh.dispose: the observer is removed, and Mesh.dispose takes the
\* mesh out of the scene.
Dispose(c, path) ==
    [c EXCEPT !.scene.onBeforeRenderObservable = @ \ {path},
              !.scene.meshes = @ \ {path},
              !.objects[path].disposed = TRUE]

\* startPath without the cleanup of the redo list.
StartPathKeepingRedo(c, x, y) ==
    IF c.currentPath # NoPath THEN c
    ELSE [CreatePath(c, x, y) EXCEPT !.currentPath = Len(c.objects) + 1]

\* InkCanvas.startPath, with the pointer at (x, y)
CanvasStartPath(c, x, y) ==
    IF c.currentPath # NoPath THEN c
    ELSE [CreatePath([c EXCEPT !.redoPaths = <<>>], x, y)
             EXCEPT !.currentPath = Len(c.objects) + 1]

\* InkCanvas.extendPath, with the pointer at (x, y): PathMesh.addPointToPath
\* on the current path.
ExtendPath(c, x, y) ==
    IF c.currentPath = NoPath THEN c
    ELSE [c EXCEPT
            !.objects[c.currentPath].pathData = AddPointToPath(@, x, y),
            !.objects[c.currentPath].mesh =
                Accumulate(@, AddPointToPath(c.objects[c.currentPath].pathData,
                                             x, y).currentChanges),
            !.objects[c.currentPath].h_extends = @ + 1]

\* InkCanvas.endPath
EndPath(c) ==
    IF c.currentPath = NoPath THEN c
    ELSE [c EXCEPT !.paths = Append(@, c.currentPath),
                   !.currentPath = NoPath]

\* undo without the test of _currentPath.
UndoDuringStroke(c) ==
    IF Len(c.paths) > 0
    THEN [c EXCEPT !.paths = SubSeq(@, 1, Len(@) - 1),
                   !.redoPaths = Append(@, c.paths[Len(c.paths)]),
                   !.scene.meshes = @ \ {c.paths[Len(c.paths)]}]
    ELSE c

\* InkCanvas.undo
Undo(c) ==
    IF c.currentPath = NoPath /\ Len(c.paths) > 0
    THEN [c EXCEPT !.paths = SubSeq(@, 1, Len(@) - 1),
                   !.redoPaths = Append(@, c.paths[Len(c.paths)]),
                   !.scene.meshes = @ \ {c.paths[Len(c.paths)]}]
    ELSE c

\* redo without scene.addMesh.
RedoOutOfScene(c) ==
    IF c.currentPath = NoPath /\ Len(c.redoPaths) > 0
    THEN [c EXCEPT !.redoPaths = SubSeq(@, 1, Len(@) - 1),
                   !.paths = Append(@, c.redoPaths[Len(c.redoPaths)])]
    ELSE c

\* InkCanvas.redo
Redo(c) ==
    IF c.currentPath = NoPath /\ Len(c.redoPaths) > 0
    THEN [c EXCEPT !.redoPaths = SubSeq(@, 1, Len(@) - 1),
                   !.paths = Append(@, c.redoPaths[Len(c.redoPaths)]),
                   !.scene.meshes = @ \cup {c.redoPaths[Len(c.redoPaths)]}]
    ELSE c

RECURSIVE ClearLoop(_)
\* while (path = this._paths.pop()) { path.dispose(); }
ClearLoop(c) ==
    IF Len(c.paths) = 0 THEN c
    ELSE ClearLoop(Dispose([c EXCEPT !.paths = SubSeq(@, 1, Len(@) - 1)],
                           c.paths[Len(c.paths)]))

\* InkCanvas.clear
Clear(c) ==
    IF c.currentPath = NoPath /\ Len(c.paths) > 0 THEN ClearLoop(c) ELSE c

\* InkCanvas.changeSize
ChangeSize(c, size) == [c EXCEPT !.currentSize = size]

\* scene.render(), as far as the paths go: every observer of
\* onBeforeRenderObservable runs the _updateGeometry of its path.
SceneRender(c, webGLVersion) ==
    [c EXCEPT !.objects =
        [path \in DOMAIN c.objects |->
            IF path \in c.scene.onBeforeRenderObservable
            THEN [c.objects[path] EXCEPT
                    !.mesh = UpdateGeometry(@, c.objects[path].pathData,
                                            webGLVersion)]
            ELSE c.objects[path]]]

\* History: the operation op has run on the canvas old and has left c.
\* h_cleared: clear() has been called outside a stroke and no stroke has
\* been completed since.  h_undone: an undo has moved a path since the
\* last stroke was started.  h_dropped: the number of paths that startPath
\* has taken off the redo list.
NotedOperation(c, old, op) ==
    [c EXCEPT
        !.h_op = op,
        !.h_cleared = IF op = "clear" /\ old.currentPath = NoPath THEN TRUE
                      ELSE IF op = "endPath" /\ old.currentPath # NoPath THEN FALSE
                      ELSE @,
        !.h_dropped = IF op = "startPath" /\ old.currentPath = NoPath
                      THEN @ + Len(old.redoPaths) ELSE @,
        !.h_undone = IF op = "undo" /\ c.paths # old.paths THEN TRUE
                     ELSE IF op = "startPath" /\ old.currentPath = NoPath THEN FALSE
                     ELSE @]

\* new InkCanvas(canvas, particleTextureURL)
CanvasInit ==
    /\ canvas = CanvasConstructor
    /\ pbd = NoCanvas
    /\ pre = NoCanvas
    /\ samples = <<>>
    /\ outcome = "none"
    /\ mesh = NoMesh

\* A pointer-down event: startPath with the pointer where it is.
PointerDown ==
    /\ Len(canvas.objects) < MaxPaths \/ canvas.currentPath # NoPath
    /\ \E s \in PointerPool :
          canvas' = NotedOperation(CanvasStartPath(canvas, s[1] * Q, s[2] * Q),
                                   canvas, "startPath")

\* A pointer-move event: extendPath with the pointer where it is.
PointerMove ==
    /\ canvas.currentPath # NoPath
          => canvas.objects[canvas.currentPath].h_extends < MaxExtends
    /\ \E s \in PointerPool :
          canvas' = NotedOperation(ExtendPath(canvas, s[1] * Q, s[2] * Q),
                                   canvas, "extendPath")

\* A pointer-up event: endPath.
PointerUp == canvas' = NotedOperation(EndPath(canvas), canvas, "endPath")

\* The undo button or key.
UndoEvent == canvas' = NotedOperation(Undo(canvas), canvas, "undo")

\* The redo button or key.
RedoEvent == canvas' = NotedOperation(Redo(canvas), canvas, "redo")

\* The clear button.
ClearEvent == canvas' = NotedOperation(Clear(canvas), canvas, "clear")

\* A size button.
SizeEvent ==
    \E size \in SizePool :
        canvas' = NotedOperation(ChangeSize(canvas, size), canvas, "changeSize")

\* One frame of the render loop, on an engine of WebGL 1 or of WebGL 2.
Frame ==
    \E webGLVersion \in {1, 2} :
        canvas' = NotedOperation(SceneRender(canvas, webGLVersion), canvas,
                                 "render")

CanvasNext ==
    /\ \/ PointerDown
       \/ PointerMove
       \/ PointerUp
       \/ UndoEvent
       \/ RedoEvent
       \/ ClearEvent
       \/ SizeEvent
       \/ Frame
    /\ UNCHANGED <<pbd, pre, samples, outcome, mesh>>

CanvasSpec == CanvasInit /\ [][CanvasNext]_vars

---------------------------------------------------------------------------
(* C31 *)

\* The canvas without its history.
Program(c) ==
    [paths |-> c.paths, redoPaths |-> c.redoPaths,
     currentPath |-> c.currentPath, currentSize |-> c.currentSize,
     scene |-> c.scene, objects |-> c.objects]

\* The number of places the path takes in the list.
Occurrences(list, path) == Cardinality({k \in DOMAIN list : list[k] = path})

\* One step of the canvas keeps the guards of a stroke in progress.
GuardsKept ==
    /\ canvas.currentPath # NoPath
         /\ canvas'.h_op \in {"startPath", "undo", "redo", "clear"}
         => Program(canvas') = Program(canvas)
    /\ canvas.currentPath = NoPath
         /\ canvas'.h_op \in {"extendPath", "endPath"}
         => Program(canvas') = Program(canvas)
    /\ canvas.currentPath # NoPath /\ canvas'.h_op = "endPath"
         => /\ canvas'.paths = Append(canvas.paths, canvas.currentPath)
            /\ canvas'.currentPath = NoPath
            /\ canvas'.redoPaths = canvas.redoPaths
            /\ Occurrences(canvas'.paths, canvas.currentPath) = 1
            /\ Occurrences(canvas'.redoPaths, canvas.currentPath) = 0

\* C31: while a stroke is in progress (currentPath set) startPath, undo,
\* redo and clear change nothing of the canvas, its paths and its scene;
\* while no stroke is in progress extendPath and endPath change nothing;
\* endPath in a stroke appends the current path to the paths list, where it
\* is then exactly once, and ends the stroke.
StrokeGuards == [][GuardsKept]_vars

\* A clear has been ignored during a stroke, with a completed path to
\* clear.
StrokeGuardsWitness ==
    /\ canvas.h_op = "clear"
    /\ canvas.currentPath # NoPath
    /\ Len(canvas.paths) > 0

---------------------------------------------------------------------------
(* C32 *)

\* The last element of a list that has one.
Last(list) == list[Len(list)]

\* The list without its last element.
Front(list) == SubSeq(list, 1, Len(list) - 1)

\* One step of the canvas is no undo or redo outside a stroke, or moves the
\* last path of one list to the end of the other and back again.
UndoRedoStep ==
    /\ canvas'.h_op = "undo" /\ canvas.currentPath = NoPath
         /\ Len(canvas.paths) > 0
         => /\ canvas'.paths = Front(canvas.paths)
            /\ canvas'.redoPaths = Append(canvas.redoPaths, Last(canvas.paths))
            /\ Last(canvas.paths) \in canvas.scene.meshes
            /\ canvas'.scene.meshes = canvas.scene.meshes \ {Last(canvas.paths)}
            /\ canvas'.objects = canvas.objects
            /\ canvas'.currentPath = NoPath
            /\ Program(Redo(canvas')) = Program(canvas)
    /\ canvas'.h_op = "redo" /\ canvas.currentPath = NoPath
         /\ Len(canvas.redoPaths) > 0
         => /\ canvas'.redoPaths = Front(canvas.redoPaths)
            /\ canvas'.paths = Append(canvas.paths, Last(canvas.redoPaths))
            /\ Last(canvas.redoPaths) \notin canvas.scene.meshes
            /\ canvas'.scene.meshes
                 = canvas.scene.meshes \cup {Last(canvas.redoPaths)}
            /\ canvas'.objects = canvas.objects
            /\ canvas'.currentPath = NoPath
            /\ Program(Undo(canvas')) = Program(canvas)

\* C32: outside a stroke, undo takes the path completed last off the paths
\* list and out of the scene and puts it at the end of the redo list, redo
\* does the reverse with the path undone last; an undo followed at once by
\* a redo, and a redo followed at once by an undo, leave both lists, the
\* scene and every path as they were; the path is moved whole, its data
\* untouched.
UndoRedoRoundTrip == [][UndoRedoStep]_vars

\* A redo has put back the second of two undone paths: one path is shown,
\* the other is still on the redo list.
UndoRedoRoundTripWitness ==
    /\ canvas.h_op = "redo"
    /\ canvas.currentPath = NoPath
    /\ Len(canvas.paths) = 1
    /\ Len(canvas.redoPaths) = 1
    /\ Last(canvas.paths) \in canvas.scene.meshes
    /\ Last(canvas.redoPaths) \notin canvas.scene.meshes

---------------------------------------------------------------------------
(* C33 *)

\* One step of the canvas leaves the redo list empty from the start of a
\* stroke until an undo.
RedoClearedStep ==
    /\ canvas'.h_op = "startPath" /\ canvas.currentPath = NoPath
         => /\ canvas'.currentPath # NoPath
            /\ canvas'.redoPaths = <<>>
    /\ canvas'.h_op = "startPath" /\ canvas.currentPath # NoPath
         => canvas'.redoPaths = canvas.redoPaths
    /\ Len(canvas'.objects) > 0 /\ ~canvas'.h_undone
         => canvas'.redoPaths = <<>>
    /\ canvas'.h_op = "redo" /\ Len(canvas.objects) > 0 /\ ~canvas.h_undone
         => Program(canvas') = Program(canvas)

\* C33: a startPath that starts a stroke leaves the redo list empty, and
\* the list stays empty, and redo changes nothing, until an undo moves a
\* path; a startPath that finds a stroke in progress leaves the redo list
\* as it is.
StartClearsRedo == [][RedoClearedStep]_vars

\* The second stroke has been started after the first was undone: the
\* first path is on neither list.
StartClearsRedoWitness ==
    /\ canvas.h_op = "startPath"
    /\ canvas.currentPath = 2
    /\ canvas.paths = <<>>
    /\ canvas.redoPaths = <<>>
    /\ ~canvas.h_undone

---------------------------------------------------------------------------
(* C34 *)

\* C34: once clear() has been called outside a stroke, and until a new
\* stroke is completed, the paths list and the redo list are both empty,
\* and undo and redo change nothing: no path created before the clear can
\* be shown again.
ClearRemovesAll ==
    canvas.h_cleared
        => /\ canvas.paths = <<>>
           /\ canvas.redoPaths = <<>>
           /\ Program(Undo(canvas)) = Program(canvas)
           /\ Program(Redo(canvas)) = Program(canvas)

\* After a clear outside a stroke, and before any new stroke, a redo has
\* put a path created before the clear back on the paths list and in the
\* scene.
ShownAgainAfterClear ==
    /\ canvas.h_cleared
    /\ canvas.h_op = "redo"
    /\ canvas.currentPath = NoPath
    /\ Len(canvas.paths) > 0
    /\ Last(canvas.paths) \in canvas.scene.meshes
    /\ ~canvas.objects[Last(canvas.paths)].disposed
    /\ Len(canvas.objects) = Len(canvas.paths)

\* A clear outside a stroke leaves the paths list empty, and every path it
\* took off the list disposed: out of the scene, its observer removed.
ClearEmptiesPaths ==
    canvas.h_op = "clear" /\ canvas.currentPath = NoPath
        => /\ canvas.paths = <<>>
           /\ \A path \in DOMAIN canvas.objects :
                 canvas.objects[path].disposed
                     => /\ path \notin canvas.scene.meshes
                        /\ path \notin canvas.scene.onBeforeRenderObservable

\* A clear has disposed the path on the paths list and has left the undone
\* path on the redo list.
ClearKeptRedoList ==
    /\ canvas.h_op = "clear"
    /\ canvas.currentPath = NoPath
    /\ canvas.redoPaths = <<2>>
    /\ canvas.objects[1].disposed

---------------------------------------------------------------------------
(* C35 *)

\* The paths the canvas still refers to: the current path and the paths of
\* the two lists.
Referenced ==
    ({canvas.currentPath} \ {NoPath})
        \cup {canvas.paths[k] : k \in DOMAIN canvas.paths}
        \cup {canvas.redoPaths[k] : k \in DOMAIN canvas.redoPaths}

\* C35: the paths whose before-render observer is registered are the paths
\* the canvas refers to by currentPath, the paths list or the redo list,
\* and every path it has dropped has been disposed.
NoLeakedObservers ==
    /\ canvas.scene.onBeforeRenderObservable = Referenced
    /\ \A path \in DOMAIN canvas.objects \ Referenced :
          canvas.objects[path].disposed

\* A frame has run the observer of the first path, which startPath dropped
\* from the redo list: the path is on no list, out of the scene and not
\* disposed.
LeakedObserver ==
    /\ canvas.h_op = "render"
    /\ Len(canvas.objects) = 2
    /\ 1 \notin Referenced
    /\ 1 \in canvas.scene.onBeforeRenderObservable
    /\ 1 \notin canvas.scene.meshes
    /\ ~canvas.objects[1].disposed

\* The observers registered are those of the paths not disposed, the paths
\* the canvas refers to among them; the paths of the scene are the current
\* path and those of the paths list.
ObserversOfUndisposed ==
    /\ canvas.scene.onBeforeRenderObservable
         = {path \in DOMAIN canvas.objects : ~canvas.objects[path].disposed}
    /\ Referenced \subseteq canvas.scene.onBeforeRenderObservable
    /\ canvas.scene.meshes
         = ({canvas.currentPath} \ {NoPath})
              \cup {canvas.paths[k] : k \in DOMAIN canvas.paths}

\* The claim in the runs in which no stroke was started over a redo list
\* with paths on it: h_dropped counts the paths startPath has dropped.
NoLeakedObserversWithoutDrop ==
    canvas.h_dropped = 0 => NoLeakedObservers

---------------------------------------------------------------------------
(* C36 *)

\* The joint memory in force at position n of the log of the last call:
\* the indices of p2, p3 and of the center that the segment before left,
\* in this call (its "endCap" event) or in an earlier one (the object the
\* call began with).
Remembered(n) ==
    IF \E c \in Events("endCap") : c < n
    THEN [p2Index |-> pbd.h_log[Greatest({ c \in Events("endCap") : c < n })].p2Index,
          p3Index |-> pbd.h_log[Greatest({ c \in Events("endCap") : c < n })].p3Index,
          centerIndex |-> pbd.h_log[Greatest({ c \in Events("endCap") : c < n })].i]
    ELSE [p2Index |-> pre.previous_p2Index,
          p3Index |-> pre.previous_p3Index,
          centerIndex |-> pre.nextVertexIndex - 1]

\* The end cap begun at position c of the log remembers p2 and p3 of the
\* quad of its path point, which lie below its center; every vertex the
\* cap writes after its center lies above the center.
QuadRemembered(c) ==
    /\ pbd.h_log[c].p2Index = pbd.h_log[QuadOf(PointOf(c)) + 1].i
    /\ pbd.h_log[c].p3Index = pbd.h_log[QuadOf(PointOf(c)) + 2].i
    /\ pbd.h_log[c].p2Index < pbd.h_log[c].i
    /\ pbd.h_log[c].p3Index < pbd.h_log[c].i
    /\ pbd.h_log[c + 1].k = "vertex"
    /\ pbd.h_log[c + 1].i = pbd.h_log[c].i
    /\ \A m \in Events("vertex") :
          m > c + 1 /\ PointOf(m) = PointOf(c) => pbd.h_log[m].i > pbd.h_log[c].i

\* The joint begun at position n of the log reads the memory the segment
\* before left, and its path point writes no vertex at or below the
\* previous center.
MemoryRead(n) ==
    /\ pbd.h_log[n].previous_p2Index = Remembered(n).p2Index
    /\ pbd.h_log[n].previous_p3Index = Remembered(n).p3Index
    /\ pbd.h_log[n].i = Remembered(n).centerIndex
    /\ \A m \in Events("vertex") :
          m > PointOf(n) => pbd.h_log[m].i > Remembered(n).centerIndex

\* The buffer of the object holds the point v as the position of vertex i.
KeepsPosition(i, v) ==
    /\ i >= 0
    /\ i < pbd.maxVerticesCount
    /\ PositionOf(i) = v

\* The object the call left remembers the last segment: the indices of its
\* p2 and p3 and, below the vertex cursor, its center; the buffer holds
\* the corners and the center of that segment at those indices.
MemoryKept ==
    /\ pbd.previous_p2Index = pbd.h_log[LastCap].p2Index
    /\ pbd.previous_p3Index = pbd.h_log[LastCap].p3Index
    /\ pbd.nextVertexIndex - 1 = pbd.h_log[LastCap].i
    /\ pbd.previous_p2Index < pbd.nextVertexIndex
    /\ pbd.previous_p3Index < pbd.nextVertexIndex
    /\ KeepsPosition(pbd.previous_p2Index, pbd.previous_p2)
    /\ KeepsPosition(pbd.previous_p3Index, pbd.previous_p3)
    /\ KeepsPosition(pbd.nextVertexIndex - 1, pbd.previousPoint)

\* C36: after every segment step the remembered previous p2 and p3 indices
\* are those of the quad just emitted and, with the previous-center index
\* (nextVertexIndex - 1), lie below the vertex cursor and below every
\* vertex of the end cap's contour; the joint of the next segment step
\* reads these indices, and the buffer still holds at them the corners and
\* the center of the previous segment.
JointMemoryValidity ==
    /\ \A c \in Events("endCap") : QuadRemembered(c)
    /\ \A n \in Events("joint") : MemoryRead(n)
    /\ Events("endCap") # {} => MemoryKept

\* A joint has fanned around a previous center that the call before wrote
\* above the capacity: the buffers have grown since, and hold the origin at
\* the index of the center.
JointAroundLostCenter ==
    /\ Events("joint") # {}
    /\ pre.nextVertexIndex - 1 >= pre.maxVerticesCount
    /\ pre.nextVertexIndex - 1 < pbd.maxVerticesCount
    /\ pre.previousPoint # Zero
    /\ PositionOf(pre.nextVertexIndex - 1) = Zero
    /\ \E m \in Events("triangle") : pbd.h_log[m].a = pre.nextVertexIndex - 1

\* The claim as far as the buffer reaches: the indices remembered are those
\* of the quad, below the center and the cap; each joint reads them; and
\* when the center lies within the capacity the buffer holds the corners
\* and the center of the last segment.
JointMemoryValidityWithinCapacity ==
    /\ \A c \in Events("endCap") : QuadRemembered(c)
    /\ \A n \in Events("joint") : MemoryRead(n)
    /\ Events("endCap") # {} /\ pbd.nextVertexIndex - 1 < pbd.maxVerticesCount
         => MemoryKept

\* A call tessellated two segments after an earlier one: its first joint
\* read the memory of the earlier call, its second joint the memory its
\* own first segment left, and both joints turned.
JointMemoryReadTwice ==
    /\ Cardinality(Events("joint")) = 2
    /\ pre.nextVertexIndex > 1
    /\ \A n \in Events("joint") : JointVertices(n) # {}
    /\ pbd.previous_p2Index > pre.nextVertexIndex + 5
    /\ pbd.nextVertexIndex - 1 < pbd.maxVerticesCount

====
